---------------------------- MODULE Spec2Model ----------------------------
(***************************************************************************)
(* Routing engine of routerling: the per-method route trie (RouteNode,     *)
(* Routes.add / Routes.match), typed path parameters (isParam,             *)
(* coerceType), the before/after middleware index (Routes.addBefore,       *)
(* Routes.matchesPattern, Routes.executeBefores), request dispatch         *)
(* (Routes.handle, Router.handle, Response) and router composition         *)
(* (Router.abettor, Router.mount).                                         *)
(*                                                                         *)
(* Strings are TLA+ strings; the string functions of the source (split,    *)
(* startsWith, endsWith, slice, replace, parseInt) are computed character  *)
(* by character.  Handlers are positive integers (0 is JavaScript's null); *)
(* what a handler does when it is invoked (return, res.abort(), throw) is  *)
(* chosen by the environment at the moment it is invoked.                  *)
(***************************************************************************)
EXTENDS Integers, Sequences, FiniteSets, TLC

VARIABLES
    routers,   \* router id -> Router object (subdomains, hooks, configuration, store)
    req,       \* the request/response pair in flight (Request + Response fields)
    lastOp,    \* the last registration call: its arguments and the error it threw
    nops,      \* number of registration calls made so far
    groups,    \* the RouteGroup objects created so far (prefix, interceptors)
    closures,  \* handler id -> the interceptor and the handler a wrapper closes over
    suspended  \* a second request in flight, waiting at an await while req runs

vars == <<routers, req, lastOp, nops, groups, closures, suspended>>

---------------------------------------------------------------------------
(* Bounds of the model *)

\* registration calls per behaviour in the route-table specification
MaxOps == 3
\* registration calls per behaviour in the dispatch specification
MaxSetup == 4
\* registration calls on the two routers before a mount
MaxMountOps == 3

---------------------------------------------------------------------------
(* Evaluation helper, and JavaScript string functions *)

\* In(value) with value computed once: a bound variable holds a value, where a LET
\* name is computed again at each of its uses
Let(value, In(_)) == CHOOSE y \in {In(x) : x \in {value}} : TRUE

Char(s, i) == SubSeq(s, i, i)

\* String.prototype.startsWith
StartsWith(s, p) == Len(p) <= Len(s) /\ SubSeq(s, 1, Len(p)) = p

\* String.prototype.endsWith
EndsWith(s, p) == Len(p) <= Len(s) /\ SubSeq(s, Len(s) - Len(p) + 1, Len(s)) = p

\* s.slice(n) for 0 <= n
SliceFrom(s, n) == SubSeq(s, n + 1, Len(s))

\* s.slice(0, -n) for 0 < n
SliceDropLast(s, n) == SubSeq(s, 1, Len(s) - n)

\* s.indexOf(p), 1-based; 0 when p does not occur
IndexOf(s, p) ==
    LET hits == {i \in 1..(Len(s) - Len(p) + 1) : SubSeq(s, i, i + Len(p) - 1) = p}
    IN  IF hits = {} THEN 0 ELSE CHOOSE i \in hits : \A j \in hits : i <= j

\* s.replace(p, r) with a string pattern: only the first occurrence is replaced
ReplaceFirst(s, p, r) ==
    LET i == IndexOf(s, p)
    IN  IF i = 0 THEN s
        ELSE SubSeq(s, 1, i - 1) \o r \o SubSeq(s, i + Len(p), Len(s))

RECURSIVE SplitFrom(_, _, _, _)
\* the pieces of s from position i on, cur being the piece read so far
SplitFrom(s, sep, i, cur) ==
    IF i > Len(s) THEN <<cur>>
    ELSE IF Char(s, i) = sep THEN <<cur>> \o SplitFrom(s, sep, i + 1, "")
    ELSE SplitFrom(s, sep, i + 1, cur \o Char(s, i))

\* s.split(sep) for a one-character separator: "/a/b" -> <<"", "a", "b">>
Split(s, sep) == SplitFrom(s, sep, 1, "")

\* array.filter(x => x) on an array of strings: the empty strings are dropped
FilterNonEmpty(parts) == SelectSeq(parts, LAMBDA x : x # "")

\* route.split('/').filter(segment => segment)
Segments(path) == FilterNonEmpty(Split(path, "/"))

Digits == <<"0", "1", "2", "3", "4", "5", "6", "7", "8", "9">>

IsDigit(c) == \E d \in 1..10 : Digits[d] = c

DigitVal(c) == (CHOOSE d \in 1..10 : Digits[d] = c) - 1

RECURSIVE DigitRun(_, _)
\* number of digits at the start of s from position i
DigitRun(s, i) ==
    IF i <= Len(s) /\ IsDigit(Char(s, i)) THEN 1 + DigitRun(s, i + 1) ELSE 0

RECURSIVE DigitsValue(_, _, _, _)
\* value of the n digits of s that start at position i, acc being the value so far
DigitsValue(s, i, n, acc) ==
    IF n = 0 THEN acc
    ELSE DigitsValue(s, i + 1, n - 1, acc * 10 + DigitVal(Char(s, i)))

---------------------------------------------------------------------------
(* JavaScript values of path parameters *)

\* a string value
StrVal(s) == [t |-> "string", s |-> s, n |-> 0]
\* a number: n is its integer part, s the digits of its fraction ("" for an integer)
NumVal(n, frac) == [t |-> "number", s |-> frac, n |-> n]
\* a boolean: n is 1 for true and 0 for false
BoolVal(b) == [t |-> "boolean", s |-> "", n |-> IF b THEN 1 ELSE 0]
NaN == [t |-> "NaN", s |-> "", n |-> 0]

\* parseInt(s, 10): optional sign, then the longest run of digits; NaN without one.
\* (Leading white space is skipped by parseInt; path segments here hold none.)
ParseInt(s) ==
    LET signed == Len(s) >= 1 /\ Char(s, 1) \in {"-", "+"}
        start  == IF signed THEN 2 ELSE 1
        k      == DigitRun(s, start)
        mag    == DigitsValue(s, start, k, 0)
    IN  IF k = 0 THEN NaN
        ELSE NumVal(IF signed /\ Char(s, 1) = "-" THEN 0 - mag ELSE mag, "")

RECURSIVE StripZeros(_)
StripZeros(f) ==
    IF f # "" /\ Char(f, Len(f)) = "0" THEN StripZeros(SubSeq(f, 1, Len(f) - 1)) ELSE f

\* parseFloat(s): optional sign, digits, optionally "." and digits; NaN when no digit
\* is read.  (Exponents and "Infinity" do not occur in the path segments here.)
ParseFloat(s) ==
    LET signed == Len(s) >= 1 /\ Char(s, 1) \in {"-", "+"}
        neg    == signed /\ Char(s, 1) = "-"
        start  == IF signed THEN 2 ELSE 1
        k      == DigitRun(s, start)
        dot    == start + k <= Len(s) /\ Char(s, start + k) = "."
        fk     == IF dot THEN DigitRun(s, start + k + 1) ELSE 0
        mag    == DigitsValue(s, start, k, 0)
        frac   == StripZeros(SubSeq(s, start + k + 1, start + k + fk))
    IN  IF k = 0 /\ fk = 0 THEN NaN
        ELSE NumVal(IF neg THEN 0 - mag ELSE mag,
                    IF neg /\ mag = 0 /\ frac # "" THEN "-" \o frac ELSE frac)

\* typeHint.toLowerCase() for the letters that occur in the recognised hints
LowerChar(c) ==
    CASE c = "I" -> "i" [] c = "N" -> "n" [] c = "T" -> "t" [] c = "B" -> "b"
      [] c = "O" -> "o" [] c = "L" -> "l" [] c = "S" -> "s" [] c = "R" -> "r"
      [] c = "F" -> "f" [] c = "A" -> "a" [] c = "E" -> "e" [] c = "G" -> "g"
      [] c = "U" -> "u" [] c = "M" -> "m" [] OTHER -> c

RECURSIVE ToLower(_)
ToLower(s) == IF s = "" THEN "" ELSE LowerChar(Char(s, 1)) \o ToLower(SliceFrom(s, 1))

\* isParam(segment) -> [segment, paramName, typeHint]; "" stands for null
isParam(segment) ==
    IF StartsWith(segment, ":")
    THEN LET parts == Split(SliceFrom(segment, 1), ":")
         IN  [segment |-> segment,
              name    |-> parts[1],
              type    |-> IF Len(parts) >= 2 THEN parts[2] ELSE ""]
    ELSE [segment |-> segment, name |-> "", type |-> ""]

\* the integer branch of coerceType with the NaN fallback dropped
coerceIntNoFallback(value) == ParseInt(value)

\* the integer branch of coerceType: parseInt, and the raw string when it is NaN
coerceInt(value) ==
    LET intVal == ParseInt(value)
    IN  IF intVal = NaN THEN StrVal(value) ELSE intVal

\* coerceType(value, typeHint) for a string value; typeHint "" stands for null
coerceType(value, typeHint) ==
    IF typeHint = "" THEN StrVal(value)
    ELSE LET hint == ToLower(typeHint)
         IN  CASE hint \in {"int", "integer"} -> coerceInt(value)
               [] hint \in {"float", "number"} ->
                    LET floatVal == ParseFloat(value)
                    IN  IF floatVal = NaN THEN StrVal(value) ELSE floatVal
               [] hint \in {"bool", "boolean"} ->
                    IF value \in {"true", "1"} THEN BoolVal(TRUE)
                    ELSE IF value \in {"false", "0"} THEN BoolVal(FALSE)
                    ELSE BoolVal(value # "")
               [] hint \in {"string", "str"} -> StrVal(value)
               [] OTHER -> StrVal(value)

---------------------------------------------------------------------------
(* RouteNode and the route trie *)

\* constants.js
DEFAULT == "www"
WILDCARD == "*"
METHODS == <<"GET", "HEAD", "POST", "PUT", "PATCH", "CONNECT", "TRACE", "DELETE", "OPTIONS">>

MethodSet == {METHODS[i] : i \in 1..Len(METHODS)}

\* the key under which every parameter segment is stored in RouteNode.children
ParamKey == ":"

\* route of a node that terminates no route (JavaScript null)
NullRoute == "<null>"

\* new RouteNode(): no handler, no route, no parameter bindings, no wildcard.
\* (children is the set of one-key extensions of the node's key path in the trie.)
NewNode == [handler |-> 0, route |-> NullRoute, parameterized |-> <<>>, wildcard |-> <<>>]

\* a trie is a function from key paths to RouteNodes; the root has the empty path
EmptyTrie == (<<>> :> NewNode)

\* currentNode.children.has(key)
HasChild(trie, np, key) == Append(np, key) \in DOMAIN trie

\* obj[route] = {name, type} on the parameterized object: a key that exists keeps
\* its place, a new key goes last (property order of Object.entries)
SetParamInfo(parameterized, route, name, type) ==
    LET info == [route |-> route, name |-> name, type |-> type]
        at   == {i \in 1..Len(parameterized) : parameterized[i].route = route}
    IN  IF at = {} THEN Append(parameterized, info)
        ELSE [i \in 1..Len(parameterized) |->
                 IF i \in at THEN info ELSE parameterized[i]]

\* Map.prototype.has on one method's lookup table
CacheHas(cache, route) == \E i \in 1..Len(cache) : cache[i].route = route

\* Map.prototype.get(route).handler on one method's lookup table
CacheGet(cache, route) ==
    cache[CHOOSE i \in 1..Len(cache) : cache[i].route = route].handler

\* Map.prototype.set(route, {handler, route}): insertion order is kept
CacheSet(cache, route, handler) ==
    LET entry == [route |-> route, handler |-> handler]
    IN  IF CacheHas(cache, route)
        THEN [i \in 1..Len(cache) |-> IF cache[i].route = route THEN entry ELSE cache[i]]
        ELSE Append(cache, entry)

\* new Routes(): an empty trie and an empty lookup table per method, no middleware
NewRoutes ==
    [routes  |-> [m \in MethodSet |-> EmptyTrie],
     cache   |-> [m \in MethodSet |-> <<>>],
     befores |-> <<>>,
     afters  |-> <<>>]

RECURSIVE AddWalk(_, _, _, _, _, _)
\* the loop of Routes.add from segment i on, currentNode being the node at np
AddWalk(trie, np, segments, i, route, handler) ==
    LET segment == segments[i]
        isLast  == i = Len(segments)
    IN  IF segment = "*"
        THEN [trie EXCEPT ![np].wildcard = <<[handler |-> handler, route |-> route]>>]
        ELSE LET p       == isParam(segment)
                 nodeKey == IF p.name # "" THEN ParamKey ELSE segment
                 child   == Append(np, nodeKey)
                 t1      == IF child \in DOMAIN trie THEN trie ELSE (child :> NewNode) @@ trie
                 t2      == IF p.name # ""
                            THEN [t1 EXCEPT ![child].parameterized =
                                     SetParamInfo(@, route, p.name, p.type)]
                            ELSE t1
                 t3      == IF isLast
                            THEN [t2 EXCEPT ![child].handler = handler, ![child].route = route]
                            ELSE t2
             IN  IF isLast THEN t3
                 ELSE Let(t3, LAMBDA t : AddWalk(t, child, segments, i + 1, route, handler))

\* the body of Routes.add after the duplicate check
AddToTree(tbl, method, route, handler) ==
    LET segments == Segments(route)
        trie     == tbl.routes[method]
        newTrie  == IF segments = <<>>
                    THEN [trie EXCEPT ![<<>>].handler = handler, ![<<>>].route = route]
                    ELSE AddWalk(trie, <<>>, segments, 1, route, handler)
    IN  [tbl EXCEPT !.routes[method] = newTrie,
                    !.cache[method] = CacheSet(@, route, handler)]

\* Routes.add without its duplicate check: a second registration overwrites
RoutesAddNoDuplicateCheck(tbl, method, route, handler) ==
    [err |-> "", tbl |-> AddToTree(tbl, method, route, handler)]

\* Routes.add(method, route, handler): err is the name of the error thrown ("" for none)
RoutesAdd(tbl, method, route, handler) ==
    IF CacheHas(tbl.cache[method], route)
    THEN [err |-> "UrlDuplicateError", tbl |-> tbl]
    ELSE [err |-> "", tbl |-> AddToTree(tbl, method, route, handler)]

RECURSIVE UpdateWalk(_, _, _, _, _)
\* the loop of Routes.updateHandler from segment i on, currentNode being the node at
\* np: ok is the value returned
UpdateWalk(trie, np, segments, i, newHandler) ==
    LET segment == segments[i]
        isLast  == i = Len(segments)
    IN  IF segment = "*"
        THEN IF trie[np].wildcard # <<>>
             THEN [ok |-> TRUE,
                   trie |-> [trie EXCEPT ![np].wildcard =
                                <<[handler |-> newHandler, route |-> @[1].route]>>]]
             ELSE [ok |-> FALSE, trie |-> trie]
        ELSE LET nodeKey == IF StartsWith(segment, ":") THEN ParamKey ELSE segment
                 child   == Append(np, nodeKey)
             IN  IF child \notin DOMAIN trie THEN [ok |-> FALSE, trie |-> trie]
                 ELSE IF isLast
                 THEN [ok |-> TRUE, trie |-> [trie EXCEPT ![child].handler = newHandler]]
                 ELSE UpdateWalk(trie, child, segments, i + 1, newHandler)

\* Routes.updateHandler(method, route, newHandler): ok is the value returned; the
\* lookup entry of the route gets the handler when the walk reached a node and the
\* entry exists
updateHandler(tbl, method, route, newHandler) ==
    IF method \notin DOMAIN tbl.routes THEN [ok |-> FALSE, tbl |-> tbl]
    ELSE LET segments == Segments(route)
             trie     == tbl.routes[method]
             walked   == IF segments = <<>>
                         THEN [ok |-> TRUE,
                               trie |-> [trie EXCEPT ![<<>>].handler = newHandler]]
                         ELSE UpdateWalk(trie, <<>>, segments, 1, newHandler)
         IN  IF ~walked.ok THEN [ok |-> FALSE, tbl |-> tbl]
             ELSE [ok |-> TRUE,
                   tbl |-> [tbl EXCEPT
                              !.routes[method] = walked.trie,
                              !.cache[method] =
                                 IF CacheHas(@, route) THEN CacheSet(@, route, newHandler)
                                 ELSE @]]

\* Map.prototype.delete(route) on one method's lookup table
CacheDelete(cache, route) == SelectSeq(cache, LAMBDA e : e.route # route)

\* Routes.remove cleaning up the tree as well: the node of the route loses its handler
removeClearingNode(tbl, method, route) ==
    IF CacheHas(tbl.cache[method], route)
    THEN [updateHandler(tbl, method, route, 0).tbl EXCEPT
             !.cache[method] = CacheDelete(@, route)]
    ELSE tbl

\* Routes.remove(method, route): the lookup entry is deleted, the tree is left alone
remove(tbl, method, route) ==
    IF CacheHas(tbl.cache[method], route)
    THEN [tbl EXCEPT !.cache[method] = CacheDelete(@, route)]
    ELSE tbl

\* request.setParam(name, value) for every entry of paramChild.parameterized, in order
RECURSIVE WriteParams(_, _, _, _)
WriteParams(parameterized, i, segment, params) ==
    IF i > Len(parameterized) THEN params
    ELSE LET info  == parameterized[i]
             value == coerceType(segment, info.type)
         IN  WriteParams(parameterized, i + 1, segment,
                         (info.name :> value) @@ params)

RECURSIVE MatchParamFirst(_, _, _, _)
\* RouteNode.match with the parameter child tried before the literal child
MatchParamFirst(trie, np, segments, params) ==
    IF segments = <<>>
    THEN IF trie[np].handler # 0
         THEN [route |-> trie[np].route, handler |-> trie[np].handler, params |-> params]
         ELSE [route |-> NullRoute, handler |-> 0, params |-> params]
    ELSE LET segment == Head(segments)
             rest    == Tail(segments)
             hasPar  == HasChild(trie, np, ParamKey)
             written == IF hasPar
                        THEN WriteParams(trie[Append(np, ParamKey)].parameterized, 1,
                                         segment, params)
                        ELSE params
             par     == IF hasPar
                        THEN MatchParamFirst(trie, Append(np, ParamKey), rest, written)
                        ELSE [route |-> NullRoute, handler |-> 0, params |-> params]
         IN  IF par.handler # 0 THEN par
             ELSE LET lit == IF HasChild(trie, np, segment)
                             THEN MatchParamFirst(trie, Append(np, segment), rest, par.params)
                             ELSE [route |-> NullRoute, handler |-> 0, params |-> par.params]
                  IN  IF lit.handler # 0 THEN lit
                      ELSE IF trie[np].wildcard # <<>>
                      THEN [route   |-> trie[np].wildcard[1].route,
                            handler |-> trie[np].wildcard[1].handler,
                            params  |-> lit.params]
                      ELSE [route |-> NullRoute, handler |-> 0, params |-> lit.params]

RECURSIVE NodeMatch(_, _, _, _)
\* RouteNode.match(segments, request) at the node with key path np; params is the
\* request's parameter mapping, which the call mutates, so the result carries it
NodeMatch(trie, np, segments, params) ==
    IF segments = <<>>
    THEN IF trie[np].handler # 0
         THEN [route |-> trie[np].route, handler |-> trie[np].handler, params |-> params]
         ELSE [route |-> NullRoute, handler |-> 0, params |-> params]
    ELSE LET segment == Head(segments)
             rest    == Tail(segments)
             lit     == IF HasChild(trie, np, segment)
                        THEN NodeMatch(trie, Append(np, segment), rest, params)
                        ELSE [route |-> NullRoute, handler |-> 0, params |-> params]
         IN  IF lit.handler # 0 THEN lit
             ELSE LET hasPar  == HasChild(trie, np, ParamKey)
                      written == IF hasPar
                                 THEN WriteParams(trie[Append(np, ParamKey)].parameterized,
                                                  1, segment, lit.params)
                                 ELSE lit.params
                      par     == IF hasPar
                                 THEN NodeMatch(trie, Append(np, ParamKey), rest, written)
                                 ELSE [route |-> NullRoute, handler |-> 0, params |-> written]
                  IN  IF par.handler # 0 THEN par
                      ELSE IF trie[np].wildcard # <<>>
                      THEN [route   |-> trie[np].wildcard[1].route,
                            handler |-> trie[np].wildcard[1].handler,
                            params  |-> par.params]
                      ELSE [route |-> NullRoute, handler |-> 0, params |-> par.params]

\* Routes.match(method, path, request)
RoutesMatch(tbl, method, path, params) ==
    IF method \notin DOMAIN tbl.routes
    THEN [route |-> NullRoute, handler |-> 0, params |-> params]
    ELSE NodeMatch(tbl.routes[method], <<>>, Segments(path), params)

---------------------------------------------------------------------------
(* The middleware index: Routes.befores / Routes.afters *)

\* Map.prototype.has on a middleware index
IndexHas(index, route) == \E i \in 1..Len(index) : index[i].route = route

\* IndexPush with the handlers of a pattern that is in the index replaced by the new
\* ones
IndexPushOverwriting(index, route, handlers) ==
    IF IndexHas(index, route)
    THEN [i \in 1..Len(index) |->
             IF index[i].route = route
             THEN [index[i] EXCEPT !.handlers = handlers]
             ELSE index[i]]
    ELSE Append(index, [route |-> route, handlers |-> handlers])

\* if (!index.has(route)) index.set(route, []); index.get(route).push(...handlers)
IndexPush(index, route, handlers) ==
    IF IndexHas(index, route)
    THEN [i \in 1..Len(index) |->
             IF index[i].route = route
             THEN [index[i] EXCEPT !.handlers = @ \o handlers]
             ELSE index[i]]
    ELSE Append(index, [route |-> route, handlers |-> handlers])

\* Routes.addBefore(route, handler)
addBefore(tbl, route, handler) ==
    [tbl EXCEPT !.befores = IndexPush(@, route, <<handler>>)]

\* Routes.addAfter(route, handler)
addAfter(tbl, route, handler) ==
    [tbl EXCEPT !.afters = IndexPush(@, route, <<handler>>)]

\* the last branch of Routes.matchesPattern: equal segment counts, and every
\* pattern segment that does not start with ":" equal to the path's
ParameterizedMatch(pattern, path) ==
    LET patternParts == Segments(pattern)
        pathParts    == Segments(path)
    IN  /\ Len(patternParts) = Len(pathParts)
        /\ \A i \in 1..Len(patternParts) :
              StartsWith(patternParts[i], ":") \/ patternParts[i] = pathParts[i]

\* Routes.matchesPattern with the wildcard test reduced to a bare string prefix
matchesPatternBarePrefix(pattern, path) ==
    \/ pattern = path
    \/ /\ EndsWith(pattern, "/*")
       /\ StartsWith(path, SliceDropLast(pattern, 2))
    \/ /\ ~EndsWith(pattern, "/*")
       /\ ParameterizedMatch(pattern, path)

\* Routes.matchesPattern(pattern, path)
matchesPattern(pattern, path) ==
    IF pattern = path THEN TRUE
    ELSE IF EndsWith(pattern, "/*")
    THEN LET prefix == SliceDropLast(pattern, 2)
         IN  StartsWith(path, prefix \o "/") \/ path = prefix
    ELSE ParameterizedMatch(pattern, path)

RECURSIVE MatchingHandlers(_, _, _)
\* the handlers Routes.executeBefores / executeAfters invoke for a path, in the order
\* of the two nested loops: index entries in insertion order, then each entry's list
MatchingHandlers(index, i, path) ==
    IF i > Len(index) THEN <<>>
    ELSE (IF matchesPattern(index[i].route, path) THEN index[i].handlers ELSE <<>>)
         \o MatchingHandlers(index, i + 1, path)

---------------------------------------------------------------------------
(* Router: subdomain tables, registration, mount *)

\* new Router(): the default subdomain table and nothing else
NewRouter ==
    [subdomains     |-> <<[name |-> DEFAULT, engine |-> NewRoutes]>>,
     initializers   |-> <<>>,
     deinitializers |-> <<>>,
     configuration  |-> <<>>,
     buckets        |-> <<>>,
     errorHandler   |-> 0]

\* this.subdomains.has(name)
HasSubdomain(router, name) ==
    \E i \in 1..Len(router.subdomains) : router.subdomains[i].name = name

SubIndex(router, name) ==
    CHOOSE i \in 1..Len(router.subdomains) : router.subdomains[i].name = name

\* this.subdomains.get(name), for a registered name
Engine(router, name) == router.subdomains[SubIndex(router, name)].engine

\* Router.subdomain(name): creates the table only when it is absent
subdomain(router, name) ==
    IF HasSubdomain(router, name) THEN router
    ELSE [router EXCEPT !.subdomains =
             Append(@, [name |-> name, engine |-> NewRoutes])]

SetEngine(router, name, tbl) ==
    [router EXCEPT !.subdomains[SubIndex(router, name)].engine = tbl]

\* Router.abettor without the test that the route starts with "/"
abettorNoSlashCheck(router, method, route, handler, sub) ==
    IF ~HasSubdomain(router, sub)
    THEN [err |-> "SubdomainError", router |-> router]
    ELSE LET r == RoutesAdd(Engine(router, sub), method, route, handler)
         IN  [err |-> r.err, router |-> SetEngine(router, sub, r.tbl)]

\* Router.abettor(method, route, handler, subdomain); err names the error thrown
abettor(router, method, route, handler, sub) ==
    IF ~StartsWith(route, "/")
    THEN [err |-> "UrlError", router |-> router]
    ELSE IF ~HasSubdomain(router, sub)
    THEN [err |-> "SubdomainError", router |-> router]
    ELSE LET r == RoutesAdd(Engine(router, sub), method, route, handler)
         IN  [err |-> r.err, router |-> SetEngine(router, sub, r.tbl)]

\* Router.BEFORE creating the table of a subdomain that is not registered
BEFORECreatingSubdomain(router, route, handler, sub) ==
    [err |-> "",
     router |-> SetEngine(subdomain(router, sub), sub,
                          addBefore(Engine(subdomain(router, sub), sub), route, handler))]

\* Router.BEFORE(route, handler, subdomain)
BEFORE(router, route, handler, sub) ==
    IF ~HasSubdomain(router, sub)
    THEN [err |-> "SubdomainError", router |-> router]
    ELSE [err |-> "",
          router |-> SetEngine(router, sub, addBefore(Engine(router, sub), route, handler))]

\* Router.AFTER(route, handler, subdomain)
AFTER(router, route, handler, sub) ==
    IF ~HasSubdomain(router, sub)
    THEN [err |-> "SubdomainError", router |-> router]
    ELSE [err |-> "",
          router |-> SetEngine(router, sub, addAfter(Engine(router, sub), route, handler))]

\* {...a, ...b} on objects kept as functions from keys to values
Spread(a, b) ==
    [k \in DOMAIN a \cup DOMAIN b |-> IF k \in DOMAIN b THEN b[k] ELSE a[k]]

\* prefix ? (prefix + route).replace('//', '/') : route, with the prefix left off
FinalRouteNoPrefix(prefix, route) == route

\* prefix ? (prefix + route).replace('//', '/') : route
FinalRoute(prefix, route) ==
    IF prefix # "" THEN ReplaceFirst(prefix \o route, "//", "/") ELSE route

RECURSIVE MountSkippingDuplicates(_, _, _, _, _)
\* the inner loop of mount with a colliding source route passed over in silence: the
\* destination keeps the handler it has
MountSkippingDuplicates(target, method, cache, i, prefix) ==
    IF i > Len(cache) THEN [err |-> "", tbl |-> target]
    ELSE Let(RoutesAdd(target, method, FinalRoute(prefix, cache[i].route),
                       cache[i].handler),
             LAMBDA r : MountSkippingDuplicates(r.tbl, method, cache, i + 1, prefix))

RECURSIVE MountMethodRoutes(_, _, _, _, _)
\* the inner loop of mount over one method's lookup table of the source, from entry i;
\* it stops at the first targetRoutes.add that throws
MountMethodRoutes(target, method, cache, i, prefix) ==
    IF i > Len(cache) THEN [err |-> "", tbl |-> target]
    ELSE Let(RoutesAdd(target, method, FinalRoute(prefix, cache[i].route),
                       cache[i].handler),
             LAMBDA r : IF r.err # "" THEN r
                        ELSE MountMethodRoutes(r.tbl, method, cache, i + 1, prefix))

RECURSIVE MountRoutes(_, _, _, _)
\* for (const method of METHODS): the routes of every method, from METHODS[k] on
MountRoutes(target, source, k, prefix) ==
    IF k > Len(METHODS) THEN [err |-> "", tbl |-> target]
    ELSE Let(IF METHODS[k] \in DOMAIN source.cache
             THEN MountMethodRoutes(target, METHODS[k], source.cache[METHODS[k]],
                                    1, prefix)
             ELSE [err |-> "", tbl |-> target],
             LAMBDA r : IF r.err # "" THEN r
                        ELSE MountRoutes(r.tbl, source, k + 1, prefix))

RECURSIVE MergeIndexOverwriting(_, _, _, _)
\* the merge loop setting the target list of the final route to the source list
MergeIndexOverwriting(index, sourceIndex, i, prefix) ==
    IF i > Len(sourceIndex) THEN index
    ELSE Let(IndexPushOverwriting(index, FinalRoute(prefix, sourceIndex[i].route),
                                  sourceIndex[i].handlers),
             LAMBDA pushed : MergeIndexOverwriting(pushed, sourceIndex, i + 1, prefix))

RECURSIVE MergeIndex(_, _, _, _)
\* the "Merge Befores" / "Merge Afters" loop: every source list is appended to the
\* target list of the final route
MergeIndex(index, sourceIndex, i, prefix) ==
    IF i > Len(sourceIndex) THEN index
    ELSE Let(IndexPush(index, FinalRoute(prefix, sourceIndex[i].route),
                       sourceIndex[i].handlers),
             LAMBDA pushed : MergeIndex(pushed, sourceIndex, i + 1, prefix))

RECURSIVE MountSubdomainsOverwriting(_, _, _, _)
\* the subdomain loop of Router.mount writing the mounted routes into a new table put
\* in place of the target's table
MountSubdomainsOverwriting(this, source, i, prefix) ==
    IF i > Len(source.subdomains) THEN [err |-> "", router |-> this]
    ELSE LET name    == source.subdomains[i].name
             srcTbl  == source.subdomains[i].engine
             created == subdomain(this, name)
         IN  Let(MountRoutes(NewRoutes, srcTbl, 1, prefix),
                 LAMBDA r :
                    IF r.err # ""
                    THEN [err |-> r.err, router |-> SetEngine(created, name, r.tbl)]
                    ELSE Let(SetEngine(created, name, r.tbl),
                             LAMBDA merged :
                                MountSubdomainsOverwriting(merged, source, i + 1, prefix)))

RECURSIVE MountSubdomains(_, _, _, _)
\* the loop of mount over the source router's subdomains, from the i-th on
MountSubdomains(this, source, i, prefix) ==
    IF i > Len(source.subdomains) THEN [err |-> "", router |-> this]
    ELSE LET name    == source.subdomains[i].name
             srcTbl  == source.subdomains[i].engine
             created == subdomain(this, name)
         IN  Let(MountRoutes(Engine(created, name), srcTbl, 1, prefix),
                 LAMBDA r :
                    IF r.err # ""
                    THEN [err |-> r.err, router |-> SetEngine(created, name, r.tbl)]
                    ELSE Let(SetEngine(created, name,
                                 [r.tbl EXCEPT
                                     !.befores = MergeIndex(@, srcTbl.befores, 1, prefix),
                                     !.afters  = MergeIndex(@, srcTbl.afters, 1, prefix)]),
                             LAMBDA merged :
                                MountSubdomains(merged, source, i + 1, prefix)))

\* Router.mount(router, isolated, prefix); when an add throws, router is this as the
\* exception leaves it
mount(this, source, isolated, prefix) ==
    LET shared == IF ~isolated
                  THEN [this EXCEPT
                           !.configuration = Spread(this.configuration, source.configuration),
                           !.buckets       = Spread(this.buckets, source.buckets)]
                  ELSE this
    IN  Let(MountSubdomains(shared, source, 1, prefix),
            LAMBDA r :
               IF r.err # "" THEN r
               ELSE [err |-> "",
                     router |-> [r.router EXCEPT
                                    !.initializers   = @ \o source.initializers,
                                    !.deinitializers = @ \o source.deinitializers]])

---------------------------------------------------------------------------
(* Request, Response and dispatch: Router.handle, Routes.handle *)

\* constants.js: what a new Response starts with
STATUS_NOT_FOUND == 404
MESSAGE_NOT_FOUND == "Not found"
\* Response body setter: the status it replaces, and the status it sets instead
STATUS_OK == 200
\* Router.handle: the status of the generic failure response
STATUS_INTERNAL_SERVER_ERROR == 500

RouterIds == {"A", "B"}

\* new Request(...) / new Response(...): no parameters, status 404, body "Not found",
\* nothing sent; the remaining fields are the position of Router.handle
IdleReq ==
    [pc       |-> "idle",            \* where Router.handle / Routes.handle stands
     host     |-> "",                \* the host header ("" when there is none)
     key      |-> DEFAULT,           \* metadata[0]: the subdomain key of the host
     engine   |-> DEFAULT,           \* the table the request is dispatched on
     method   |-> "",
     path     |-> "",
     params   |-> <<>>,              \* Request._params
     route    |-> NullRoute,         \* the route Routes.match returned
     handler  |-> 0,                 \* the handler Routes.match returned
     status   |-> STATUS_NOT_FOUND,  \* Response._status
     body     |-> MESSAGE_NOT_FOUND, \* Response._body
     aborted  |-> FALSE,             \* Response._abort
     k        |-> 0,                 \* next position in the running middleware loop
     running  |-> 0,                 \* the handler being awaited (0: none)
     log      |-> <<>>,              \* invocations and completions, in order
     thrown   |-> FALSE,             \* an error reached the catch of Router.handle
     sent     |-> FALSE,             \* the response was written to the socket
     responses |-> 0,                \* number of responses written to the socket
     sentStatus |-> 0,
     sentBody |-> ""]

\* the payload a handler passes to res.abort / assigns to res.body
AbortPayload(h) == "abort-" \o ToString(h)
BodyPayload(h) == "body-" \o ToString(h)

\* Response body setter for a string value: a status of 404 becomes 200
SetBody(r, value) ==
    [r EXCEPT !.body = value,
              !.status = IF r.status = STATUS_NOT_FOUND THEN STATUS_OK ELSE r.status]

\* Response.abort(payload) for a string payload, up to its throw
Abort(r, payload) == [r EXCEPT !.aborted = TRUE, !.body = payload]

\* Response.send(): status and body go to the socket once
SendResponse(r) ==
    IF r.sent THEN r
    ELSE [r EXCEPT !.sent = TRUE, !.responses = @ + 1,
                   !.sentStatus = r.status, !.sentBody = r.body]

\* Router.handle, lines 72-76, without the wildcard table: the table of the key, else
\* the default table
ResolveEngineNoWildcard(router, key) ==
    IF HasSubdomain(router, key) THEN key ELSE DEFAULT

\* Router.handle, lines 72-76: the table of the key, else the wildcard table, else
\* the default table
ResolveEngine(router, key) ==
    IF HasSubdomain(router, key) THEN key
    ELSE IF HasSubdomain(router, WILDCARD) THEN WILDCARD
    ELSE DEFAULT

ReqTable == Engine(routers["A"], req.engine)

BeforeQueue == MatchingHandlers(ReqTable.befores, 1, req.path)
AfterQueue == MatchingHandlers(ReqTable.afters, 1, req.path)

NoOp == [op |-> "none", router |-> "A", method |-> "", route |-> "", handler |-> 0,
         sub |-> DEFAULT, prefix |-> "", group |-> 0, err |-> ""]

\* no request is in flight
Quiet == req.pc = "idle"

\* Router.handle up to the call of engine.handle, and Routes.handle up to its first
\* await: the request is bound to its table and the before-middleware loop starts
StartRequest(method, path, key) ==
    /\ Quiet
    /\ req' = [IdleReq EXCEPT !.pc = "befores", !.key = key,
                              !.engine = ResolveEngine(routers["A"], key),
                              !.method = method, !.path = path, !.k = 1]
    /\ UNCHANGED <<routers, lastOp, nops, groups, closures, suspended>>

\* executeBefores: the next matching before-middleware is invoked and awaited
InvokeBefore ==
    /\ req.pc = "befores" /\ req.running = 0
    /\ req.k <= Len(BeforeQueue)
    /\ req' = [req EXCEPT !.running = BeforeQueue[req.k],
                          !.log = Append(@, [ev |-> "call", stage |-> "before",
                                             h |-> BeforeQueue[req.k]])]
    /\ UNCHANGED <<routers, lastOp, nops, groups, closures, suspended>>

\* Routes.handle, lines 250-251: res.status = 404; res.body = 'Not Found'
NotFound(r) == SetBody([r EXCEPT !.status = STATUS_NOT_FOUND], "Not Found")

\* the route lookup of Routes.handle with the parameters kept in one place for all
\* requests: what the lookup writes is seen by the other request in flight too
MatchRouteSharedParams ==
    /\ req.pc = "befores" /\ req.running = 0
    /\ req.k > Len(BeforeQueue)
    /\ LET m == RoutesMatch(ReqTable, req.method, req.path, req.params)
           r == [req EXCEPT !.params = m.params, !.route = m.route, !.handler = m.handler]
       IN  /\ req' = IF m.handler = 0
                     THEN [NotFound(r) EXCEPT !.pc = "send"]
                     ELSE [r EXCEPT !.pc = "handler"]
           /\ suspended' = IF suspended.pc = "idle" THEN suspended
                           ELSE [suspended EXCEPT !.params = m.params]
    /\ UNCHANGED <<routers, lastOp, nops, groups, closures>>

\* Routes.handle, lines 247-253: after the before-middleware, the route is matched;
\* without a handler the not-found response is set and handle returns
MatchRoute ==
    /\ req.pc = "befores" /\ req.running = 0
    /\ req.k > Len(BeforeQueue)
    /\ LET m == RoutesMatch(ReqTable, req.method, req.path, req.params)
           r == [req EXCEPT !.params = m.params, !.route = m.route, !.handler = m.handler]
       IN  req' = IF m.handler = 0
                  THEN [NotFound(r) EXCEPT !.pc = "send"]
                  ELSE [r EXCEPT !.pc = "handler"]
    /\ UNCHANGED <<routers, lastOp, nops, groups, closures, suspended>>

\* Routes.handle, line 256: the route handler is invoked and awaited
InvokeHandler ==
    /\ req.pc = "handler" /\ req.running = 0
    /\ req' = [req EXCEPT !.running = req.handler,
                          !.log = Append(@, [ev |-> "call", stage |-> "handler",
                                             h |-> req.handler])]
    /\ UNCHANGED <<routers, lastOp, nops, groups, closures, suspended>>

\* executeAfters: the next matching after-middleware is invoked and awaited
InvokeAfter ==
    /\ req.pc = "afters" /\ req.running = 0
    /\ req.k <= Len(AfterQueue)
    /\ req' = [req EXCEPT !.running = AfterQueue[req.k],
                          !.log = Append(@, [ev |-> "call", stage |-> "after",
                                             h |-> AfterQueue[req.k]])]
    /\ UNCHANGED <<routers, lastOp, nops, groups, closures, suspended>>

\* Routes.handle going from the route handler to its return without executeAfters
AfterReturnNoAfters(r) ==
    CASE r.pc = "befores" -> [r EXCEPT !.k = @ + 1]
      [] r.pc = "handler" -> [r EXCEPT !.pc = "send"]
      [] r.pc = "afters"  -> [r EXCEPT !.k = @ + 1]

\* where Routes.handle continues when the awaited call of a stage returns
AfterReturn(r) ==
    CASE r.pc = "befores" -> [r EXCEPT !.k = @ + 1]
      [] r.pc = "handler" -> [r EXCEPT !.pc = "afters", !.k = 1]
      [] r.pc = "afters"  -> [r EXCEPT !.k = @ + 1]

\* the catch of Routes.handle with the abort treated like any other error
OnAbortRethrow(r) == [r EXCEPT !.pc = "error", !.thrown = TRUE]

\* the catch of Routes.handle, lines 261-270, on an AbortException: nothing more runs
\* and handle returns the response, which Router.handle then sends
OnAbort(r) == [r EXCEPT !.pc = "send"]

\* the awaited handler finishes: it returns (having left the response alone or
\* having assigned res.body), calls res.abort(payload), or throws another error
Complete(outcome) ==
    /\ req.running # 0
    /\ LET h    == req.running
           done == [req EXCEPT !.running = 0,
                               !.log = Append(@, [ev |-> outcome, stage |-> req.pc,
                                                  h |-> h])]
       IN  req' = CASE outcome = "return" -> AfterReturn(done)
                    [] outcome = "write"  -> AfterReturn(SetBody(done, BodyPayload(h)))
                    [] outcome = "abort"  -> OnAbort(Abort(done, AbortPayload(h)))
                    [] outcome = "throw"  -> [done EXCEPT !.pc = "error", !.thrown = TRUE]
    /\ UNCHANGED <<routers, lastOp, nops, groups, closures, suspended>>

Outcomes == {"return", "write", "abort", "throw"}

\* Router.handle, line 90: response.send() once engine.handle has returned
Send ==
    /\ req.running = 0
    /\ \/ req.pc = "send"
       \/ req.pc = "afters" /\ req.k > Len(AfterQueue)
    /\ req' = [SendResponse(req) EXCEPT !.pc = "done"]
    /\ UNCHANGED <<routers, lastOp, nops, groups, closures, suspended>>

\* the body of the generic failure response for an error without message and
\* statusCode: JSON.stringify({error: {message, statusCode}})
GenericFailureBody ==
    "{\"error\":{\"message\":\"Internal Server Error\",\"statusCode\":500}}"

\* Router.handle, lines 107-119: no error handler is set, so the generic failure
\* response is written to the socket unless one was written already (the error
\* carries no message and no statusCode)
GenericFailure ==
    /\ req.pc = "error"
    /\ routers["A"].errorHandler = 0
    /\ req' = IF req.sent THEN [req EXCEPT !.pc = "done"]
              ELSE [req EXCEPT !.pc = "done", !.sent = TRUE, !.responses = @ + 1,
                               !.sentStatus = STATUS_INTERNAL_SERVER_ERROR,
                               !.sentBody = GenericFailureBody]
    /\ UNCHANGED <<routers, lastOp, nops, groups, closures, suspended>>

---------------------------------------------------------------------------
(* Registration calls *)

\* router.GET / router.POST ...: abettor with the next unused handler
Register(rid, method, route, sub, bound) ==
    /\ Quiet /\ nops < bound
    /\ LET r == abettor(routers[rid], method, route, nops + 1, sub)
       IN  /\ routers' = [routers EXCEPT ![rid] = r.router]
           /\ lastOp' = [op |-> "abettor", router |-> rid, method |-> method,
                         route |-> route, handler |-> nops + 1, sub |-> sub,
                         prefix |-> "", group |-> 0, err |-> r.err]
    /\ nops' = nops + 1
    /\ UNCHANGED <<req, groups, closures, suspended>>

\* routes.remove(method, route) on the default table of router A
Remove(method, route, bound) ==
    /\ Quiet /\ nops < bound
    /\ routers' = [routers EXCEPT !["A"] =
                      SetEngine(@, DEFAULT, remove(Engine(@, DEFAULT), method, route))]
    /\ lastOp' = [NoOp EXCEPT !.op = "remove", !.method = method, !.route = route]
    /\ nops' = nops + 1
    /\ UNCHANGED <<req, groups, closures, suspended>>

\* routes.updateHandler(method, route, h) on the default table of router A, with the
\* next unused handler
UpdateHandler(method, route, bound) ==
    /\ Quiet /\ nops < bound
    /\ routers' = [routers EXCEPT !["A"] =
                      SetEngine(@, DEFAULT,
                                updateHandler(Engine(@, DEFAULT), method, route,
                                              nops + 1).tbl)]
    /\ lastOp' = [NoOp EXCEPT !.op = "updateHandler", !.method = method,
                              !.route = route, !.handler = nops + 1]
    /\ nops' = nops + 1
    /\ UNCHANGED <<req, groups, closures, suspended>>

\* router.BEFORE(route, handler)
RegisterBefore(rid, route, sub, bound) ==
    /\ Quiet /\ nops < bound
    /\ LET r == BEFORE(routers[rid], route, nops + 1, sub)
       IN  /\ routers' = [routers EXCEPT ![rid] = r.router]
           /\ lastOp' = [op |-> "BEFORE", router |-> rid, method |-> "",
                         route |-> route, handler |-> nops + 1, sub |-> sub,
                         prefix |-> "", group |-> 0, err |-> r.err]
    /\ nops' = nops + 1
    /\ UNCHANGED <<req, groups, closures, suspended>>

\* router.AFTER(route, handler)
RegisterAfter(rid, route, sub, bound) ==
    /\ Quiet /\ nops < bound
    /\ LET r == AFTER(routers[rid], route, nops + 1, sub)
       IN  /\ routers' = [routers EXCEPT ![rid] = r.router]
           /\ lastOp' = [op |-> "AFTER", router |-> rid, method |-> "",
                         route |-> route, handler |-> nops + 1, sub |-> sub,
                         prefix |-> "", group |-> 0, err |-> r.err]
    /\ nops' = nops + 1
    /\ UNCHANGED <<req, groups, closures, suspended>>

\* A.mount(B, isolated, prefix); a mount that throws leaves A as the exception left it
Mount(isolated, prefix) ==
    /\ Quiet /\ lastOp.op # "mount"
    /\ LET r == mount(routers["A"], routers["B"], isolated, prefix)
       IN  /\ routers' = [routers EXCEPT !["A"] = r.router]
           /\ lastOp' = [op |-> "mount", router |-> "A", method |-> "",
                         route |-> "", handler |-> 0, sub |-> DEFAULT,
                         prefix |-> prefix, group |-> 0, err |-> r.err]
    /\ nops' = nops + 1
    /\ UNCHANGED <<req, groups, closures, suspended>>

\* A.mount(B, isolated, prefix) as one of a bounded number of calls
MountNext(isolated, prefix, bound) ==
    /\ Quiet /\ nops < bound
    /\ LET r == mount(routers["A"], routers["B"], isolated, prefix)
       IN  /\ routers' = [routers EXCEPT !["A"] = r.router]
           /\ lastOp' = [op |-> "mount", router |-> "A", method |-> "",
                         route |-> "", handler |-> 0, sub |-> DEFAULT,
                         prefix |-> prefix, group |-> 0, err |-> r.err]
    /\ nops' = nops + 1
    /\ UNCHANGED <<req, groups, closures, suspended>>

\* Routes.match applied to a fresh request on A's default table
MatchReq(method, path) ==
    /\ Quiet
    /\ LET m == RoutesMatch(Engine(routers["A"], DEFAULT), method, path, <<>>)
       IN  req' = [IdleReq EXCEPT !.pc = "matched", !.method = method, !.path = path,
                                  !.params = m.params, !.route = m.route,
                                  !.handler = m.handler]
    /\ UNCHANGED <<routers, lastOp, nops, groups, closures, suspended>>

\* the request is over: its Request and Response objects are dropped
Release ==
    /\ req.pc \in {"matched", "done"}
    /\ req' = IdleReq
    /\ UNCHANGED <<routers, lastOp, nops, groups, closures, suspended>>

\* the event loop goes from the request that runs to the other request in flight, or
\* takes up a new one: Router.handle and Routes.handle give up control at every await
\* (parseBody, executeBefores and each middleware, the handler, executeAfters and each
\* middleware), not between the route lookup and the call of the handler
Yield ==
    /\ req.pc # "handler" \/ req.running # 0
    /\ req # suspended
    /\ req' = suspended
    /\ suspended' = req
    /\ UNCHANGED <<routers, lastOp, nops, groups, closures>>

Init ==
    /\ routers = [r \in RouterIds |-> NewRouter]
    /\ req = IdleReq
    /\ lastOp = NoOp
    /\ nops = 0
    /\ groups = <<>>
    /\ closures = <<>>
    /\ suspended = IdleReq

---------------------------------------------------------------------------
(* Specification of one route table: registration and Routes.match *)

\* the (method, pattern) pairs registered on the table
RouteInputs ==
    ({"GET"} \X {"/", "/users/me", "/users/:id", "/users/:id:int/orders",
                 "/users/me/settings", "/users/*", "/*", "users"})
    \cup ({"POST"} \X {"/users/me", "/users/:id"})

\* the request paths matched against the table
MatchPaths ==
    {"/", "/users", "/users/me", "/users/42", "/users/42/orders", "/users/abc/orders",
     "/users/7x/orders", "/users/me/orders", "/users/me/settings", "/items/1/2"}

NextRoutes ==
    \/ \E in \in RouteInputs : Register("A", in[1], in[2], DEFAULT, MaxOps)
    \/ \E m \in {"GET", "POST"}, p \in MatchPaths : MatchReq(m, p)
    \/ Release

Spec == Init /\ [][NextRoutes]_vars

---------------------------------------------------------------------------
(* Specification of dispatch: a table is set up, then requests run step by step *)

DispatchRoutes == {"/api/users", "/other"}
DispatchBefores == {"/api/*", "/*"}
DispatchAfters == {"/api/*"}
DispatchRequests ==
    ({"GET"} \X {"/api", "/api/users", "/other", "/apix"}) \cup {<<"POST", "/api/users">>}

NextDispatch ==
    \/ \E p \in DispatchRoutes : Register("A", "GET", p, DEFAULT, MaxSetup)
    \/ \E p \in DispatchBefores : RegisterBefore("A", p, DEFAULT, MaxSetup)
    \/ \E p \in DispatchAfters : RegisterAfter("A", p, DEFAULT, MaxSetup)
    \/ \E in \in DispatchRequests : StartRequest(in[1], in[2], DEFAULT)
    \/ InvokeBefore
    \/ MatchRoute
    \/ InvokeHandler
    \/ InvokeAfter
    \/ \E o \in Outcomes : Complete(o)
    \/ Send
    \/ GenericFailure
    \/ Release

SpecDispatch == Init /\ [][NextDispatch]_vars

---------------------------------------------------------------------------
(* Specification of mount: routes are registered on A and B, B is mounted into A, *)
(* and requests are matched against A                                             *)

MountInputsA == {<<"GET", "/ping">>, <<"GET", "/health">>, <<"GET", "/v1/ping">>,
                 <<"GET", "/v1/:id">>}
MountInputsB == {<<"GET", "/ping">>, <<"GET", "/health">>, <<"GET", "/:id">>,
                 <<"POST", "/ping">>}
MountPrefixes == {"", "/v1", "/v1/"}
MountPaths == {"/ping", "/health", "/v1/ping", "/v1/health", "/v1/42", "/42"}

NextMount ==
    \/ /\ lastOp.op # "mount"
       /\ \E in \in MountInputsA : Register("A", in[1], in[2], DEFAULT, MaxMountOps)
    \/ /\ lastOp.op # "mount"
       /\ \E in \in MountInputsB : Register("B", in[1], in[2], DEFAULT, MaxMountOps)
    \/ \E isolated \in BOOLEAN, prefix \in MountPrefixes : Mount(isolated, prefix)
    \/ /\ lastOp.op = "mount"
       /\ \E m \in {"GET", "POST"}, p \in MountPaths : MatchReq(m, p)
    \/ Release

SpecMount == Init /\ [][NextMount]_vars

---------------------------------------------------------------------------
(* Properties of Routes.handle, Routes.add and Routes.match *)

\* A's default table: the table the requests of the three specifications run on
TableA == Engine(routers["A"], DEFAULT)

\* the patterns registered for a method on a table
Registered(tbl, method) ==
    IF method \in DOMAIN tbl.cache
    THEN {tbl.cache[method][i].route : i \in 1..Len(tbl.cache[method])}
    ELSE {}

\* a pattern without parameter and wildcard segments
IsLiteralRoute(route) ==
    \A i \in 1..Len(Segments(route)) :
        ~StartsWith(Segments(route)[i], ":") /\ Segments(route)[i] # "*"

\* a pattern without wildcard fits a path: as many segments, and every segment of the
\* pattern is a parameter or equals the path's segment
Fits(route, path) ==
    LET rs == Segments(route)
        ps == Segments(path)
    IN  /\ Len(rs) = Len(ps)
        /\ \A i \in 1..Len(rs) :
              rs[i] # "*" /\ (StartsWith(rs[i], ":") \/ rs[i] = ps[i])

\* the first i segments of a pattern, parameters reduced to their common trie key
KeyPath(rs, i) == [j \in 1..i |-> IF StartsWith(rs[j], ":") THEN ParamKey ELSE rs[j]]

\* C1: a request that matches no route on its table ends, when no middleware aborted
\* or threw, with a response sent with status 404.
C1_UnmatchedRequestSends404 ==
    (req.pc = "done" /\ req.handler = 0 /\ ~req.aborted /\ ~req.thrown)
        => (req.sent /\ req.sentStatus = STATUS_NOT_FOUND)

\* C2: a registration call with a pattern that is new for its method succeeds, enters
\* the pattern in the lookup table with the handler given and keeps every earlier
\* entry; a call with a (method, pattern) pair that is already registered throws
\* UrlDuplicateError and changes neither the trie nor the lookup table.
C2_DuplicateRejectedDistinctAccepted ==
    [][(nops' = nops + 1 /\ lastOp'.op = "abettor" /\ StartsWith(lastOp'.route, "/"))
         => LET m      == lastOp'.method
                before == Engine(routers["A"], DEFAULT).cache[m]
                after  == Engine(routers'["A"], DEFAULT).cache[m]
            IN  IF lastOp'.route \in Registered(Engine(routers["A"], DEFAULT), m)
                THEN lastOp'.err = "UrlDuplicateError" /\ routers' = routers
                ELSE /\ lastOp'.err = ""
                     /\ CacheHas(after, lastOp'.route)
                     /\ CacheGet(after, lastOp'.route) = lastOp'.handler
                     /\ Len(after) = Len(before) + 1
                     /\ \A i \in 1..Len(before) : after[i] = before[i]]_vars

\* a duplicate registration was rejected on a table that holds two patterns of the
\* method
C2_Witness ==
    /\ lastOp.op = "abettor" /\ lastOp.err = "UrlDuplicateError"
    /\ lastOp.route \in Registered(TableA, lastOp.method)
    /\ Cardinality(Registered(TableA, lastOp.method)) >= 2

\* C3: when a registered pattern without parameters has exactly the segments of the
\* request path, match returns a pattern of that kind with its handler and binds no
\* parameter, whatever parameter patterns also fit and in whatever order they were
\* registered; and whenever some registered pattern fits the path, a failing literal
\* branch does not stop the parameter branch from yielding a handler.
C3_LiteralBeforeParameter ==
    req.pc = "matched" =>
        LET regs == Registered(TableA, req.method)
            ps   == Segments(req.path)
        IN  /\ (\E r \in regs : Fits(r, req.path)) => req.handler # 0
            /\ (\E r \in regs : IsLiteralRoute(r) /\ Segments(r) = ps) =>
                  /\ req.route \in regs
                  /\ IsLiteralRoute(req.route)
                  /\ Segments(req.route) = ps
                  /\ req.handler = CacheGet(TableA.cache[req.method], req.route)
                  /\ req.params = <<>>

\* position of a pattern in a method's lookup table (its registration order)
CacheIndex(cache, route) == CHOOSE i \in 1..Len(cache) : cache[i].route = route

\* /users/me was registered after /users/:id and is the route matched for /users/me
C3_Witness ==
    /\ req.pc = "matched" /\ req.method = "GET" /\ req.path = "/users/me"
    /\ {"/users/me", "/users/:id"} \subseteq Registered(TableA, "GET")
    /\ CacheIndex(TableA.cache["GET"], "/users/:id")
          < CacheIndex(TableA.cache["GET"], "/users/me")
    /\ req.route = "/users/me"
    /\ req.handler = CacheGet(TableA.cache["GET"], "/users/me")

\* s is the start of t
IsSegPrefix(s, t) == Len(s) <= Len(t) /\ SubSeq(t, 1, Len(s)) = s

\* C4: a registered pattern prefix/* with a literal prefix matches every path made of
\* the prefix and zero or more further segments, and a match through the wildcard
\* binds no parameter.
C4_WildcardMatchesPrefixAndBeyond ==
    req.pc = "matched" =>
        \A r \in Registered(TableA, req.method) :
            (/\ EndsWith(r, "/*")
             /\ IsLiteralRoute(SliceDropLast(r, 2))
             /\ IsSegPrefix(Segments(SliceDropLast(r, 2)), Segments(req.path)))
            => /\ req.handler # 0
               /\ req.route = r => req.params = <<>>

\* every parameter named name in the patterns of regs sits at the trie position of
\* segment i of rs and carries an integer hint
SoleIntBinding(regs, rs, i, name) ==
    \A q \in regs : \A j \in 1..Len(Segments(q)) :
        isParam(Segments(q)[j]).name = name =>
            /\ KeyPath(Segments(q), j) = KeyPath(rs, i)
            /\ ToLower(isParam(Segments(q)[j]).type) \in {"int", "integer"}

---------------------------------------------------------------------------
(* Properties of the middleware index and of aborts *)

\* the before-middleware handlers registered on a table under a pattern
BeforesAt(tbl, pattern) ==
    UNION {{tbl.befores[i].handlers[j] : j \in 1..Len(tbl.befores[i].handlers)} :
              i \in {n \in 1..Len(tbl.befores) : tbl.befores[n].route = pattern}}

\* the request got past its before-middleware: the route was looked up
PastBefores ==
    \/ req.pc \in {"handler", "afters"}
    \/ req.pc \in {"send", "done"} /\ ~req.aborted /\ ~req.thrown

\* C6: a before-middleware registered at /api/* is never invoked for a request whose
\* path is neither /api nor under /api/; for a request to /api or under /api/ it has
\* been invoked and has returned by the time the route is looked up, before any call
\* of the route handler.
C6_ApiWildcardMiddleware ==
    req.pc # "idle" =>
        \A h \in BeforesAt(TableA, "/api/*") :
            IF req.path = "/api" \/ StartsWith(req.path, "/api/")
            THEN PastBefores =>
                    \E j, k \in 1..Len(req.log) :
                        /\ j < k
                        /\ req.log[j] = [ev |-> "call", stage |-> "before", h |-> h]
                        /\ req.log[k].h = h
                        /\ req.log[k].ev \in {"return", "write"}
                        /\ \A i \in 1..Len(req.log) :
                              (req.log[i].ev = "call" /\ req.log[i].stage = "handler")
                                  => k < i
            ELSE \A i \in 1..Len(req.log) : req.log[i].h # h

\* a request to /api/users was answered after the /api/* middleware and then the
\* route handler had run
C6_Witness ==
    /\ req.pc = "done" /\ req.path = "/api/users" /\ req.sent
    /\ BeforesAt(TableA, "/api/*") # {}
    /\ Len(req.log) >= 4
    /\ req.log[1].ev = "call" /\ req.log[1].h \in BeforesAt(TableA, "/api/*")
    /\ \E i \in 1..Len(req.log) :
          req.log[i] = [ev |-> "call", stage |-> "handler", h |-> req.handler]

\* C7: once a before-middleware or the route handler has called res.abort, the abort
\* is the last thing that ran for the request: nothing is invoked after it, the error
\* does not reach the catch of Router.handle, and the response is sent with the abort
\* payload as its body.
C7_AbortShortCircuits ==
    req.aborted =>
        /\ req.log # <<>>
        /\ req.log[Len(req.log)].ev = "abort"
        /\ \A i \in 1..(Len(req.log) - 1) : req.log[i].ev # "abort"
        /\ req.running = 0
        /\ ~req.thrown
        /\ req.pc \in {"send", "done"}
        /\ req.pc = "done" =>
              /\ req.sent
              /\ req.sentBody = AbortPayload(req.log[Len(req.log)].h)

\* the first of two matching before-middleware aborted a request for which a route
\* and an after-middleware were registered: the response went out after that one call
C7_Witness ==
    /\ req.pc = "done" /\ req.aborted /\ req.sent
    /\ Len(BeforeQueue) >= 2
    /\ AfterQueue # <<>>
    /\ RoutesMatch(ReqTable, req.method, req.path, <<>>).handler # 0
    /\ Len(req.log) = 2
    /\ req.log[2] = [ev |-> "abort", stage |-> "befores", h |-> BeforeQueue[1]]
    /\ req.sentBody = AbortPayload(BeforeQueue[1])

---------------------------------------------------------------------------
(* Properties of Router.mount and Router.abettor *)

\* B's default table
TableB == Engine(routers["B"], DEFAULT)

\* the handlers of the routes registered on a table
HandlersOf(tbl) ==
    UNION {{tbl.cache[m][i].handler : i \in 1..Len(tbl.cache[m])} : m \in MethodSet}

\* C8: after B was mounted into A under /v1, every (method, P) of B is registered in A
\* as /v1 + P with B's handler; a request to /v1 + P for a literal P yields that
\* handler; and a request whose path is not under /v1 never yields a handler of B.
C8_MountUnderPrefix ==
    (lastOp.op = "mount" /\ lastOp.err = "" /\ lastOp.prefix = "/v1") =>
        /\ \A m \in {"GET", "POST"} : \A i \in 1..Len(TableB.cache[m]) :
              LET P == TableB.cache[m][i].route
              IN  /\ ("/v1" \o P) \in Registered(TableA, m)
                  /\ CacheGet(TableA.cache[m], "/v1" \o P) = TableB.cache[m][i].handler
                  /\ (req.pc = "matched" /\ req.method = m /\ IsLiteralRoute(P)
                        /\ req.path = "/v1" \o P)
                       => req.handler = TableB.cache[m][i].handler
        /\ (req.pc = "matched" /\ req.handler \in HandlersOf(TableB))
              => StartsWith(req.path, "/v1/")

\* B's /ping was mounted under /v1 into an A that has a /ping of its own: /v1/ping
\* yields B's handler
C8_Witness ==
    /\ lastOp.op = "mount" /\ lastOp.err = "" /\ lastOp.prefix = "/v1"
    /\ "/ping" \in Registered(TableB, "GET")
    /\ "/ping" \in Registered(TableA, "GET")
    /\ req.pc = "matched" /\ req.method = "GET" /\ req.path = "/v1/ping"
    /\ req.handler = CacheGet(TableB.cache["GET"], "/ping")

\* some route of the source has a final pattern that the destination already holds
\* for the same method
MountCollides(prefix) ==
    \E m \in {"GET", "POST"} : \E i \in 1..Len(TableB.cache[m]) :
        FinalRoute(prefix, TableB.cache[m][i].route) \in Registered(TableA, m)

\* C9: a mount in which the final pattern of some source route is already registered
\* in the destination for the same method throws UrlDuplicateError, and every entry
\* the destination held keeps its handler.
C9_MountDuplicateFails ==
    [][(lastOp'.op = "mount" /\ nops' = nops + 1 /\ MountCollides(lastOp'.prefix))
         => /\ lastOp'.err = "UrlDuplicateError"
            /\ \A m \in {"GET", "POST"} : \A i \in 1..Len(TableA.cache[m]) :
                  Engine(routers'["A"], DEFAULT).cache[m][i] = TableA.cache[m][i]]_vars

\* A and B both define GET /health and B was mounted without prefix: the mount threw
C9_Witness ==
    /\ lastOp.op = "mount" /\ lastOp.prefix = "" /\ lastOp.err = "UrlDuplicateError"
    /\ "/health" \in Registered(TableA, "GET")
    /\ "/health" \in Registered(TableB, "GET")

\* C10: a registration call whose pattern does not start with "/" throws UrlError and
\* leaves every table of the router as it was.
C10_PatternMustStartWithSlash ==
    [][(nops' = nops + 1 /\ lastOp'.op = "abettor" /\ ~StartsWith(lastOp'.route, "/"))
         => (lastOp'.err = "UrlError" /\ routers' = routers)]_vars

\* the pattern "users" was refused on a table that already holds a route
C10_Witness ==
    /\ lastOp.op = "abettor" /\ lastOp.route = "users" /\ lastOp.err = "UrlError"
    /\ Registered(TableA, "GET") # {}
    /\ "users" \notin Registered(TableA, "GET")

---------------------------------------------------------------------------
(* RouteGroup: a prefix and a list of interceptors; _register wraps the handler *)

\* the interceptors (functions from a handler to a handler) the groups are given
Interceptors == {"A", "B", "C"}

\* new RouteGroup(router, prefix)
NewGroup(prefix) == [prefix |-> prefix, interceptors |-> <<>>]

\* RouteGroup.use(interceptor): this.interceptors.push(interceptor)
GroupUse(group, interceptor) ==
    [group EXCEPT !.interceptors = Append(@, interceptor)]

\* the identity of the next function object an interceptor returns; wrappers get
\* negative ids, the handlers passed to registration calls positive ones
NextClosure(cl) == 0 - (Cardinality(DOMAIN cl) + 1)

\* interceptor(handler): a new function that closes over handler
Closure(interceptor, handler) == [interceptor |-> interceptor, inner |-> handler]

RECURSIVE WrapLastOutermost(_, _, _, _)
\* the loop of _register run from the first interceptor to the last, so that the
\* interceptor added last ends up outermost
WrapLastOutermost(cl, interceptors, i, handler) ==
    IF i = 0 THEN [handler |-> handler, closures |-> cl]
    ELSE Let(NextClosure(cl),
             LAMBDA c : WrapLastOutermost(
                            (c :> Closure(interceptors[Len(interceptors) - i + 1], handler))
                                @@ cl,
                            interceptors, i - 1, c))

RECURSIVE WrapWithoutFirst(_, _, _, _)
\* the loop of _register stopping before the interceptor added first
WrapWithoutFirst(cl, interceptors, i, handler) ==
    IF i <= 1 THEN [handler |-> handler, closures |-> cl]
    ELSE Let(NextClosure(cl),
             LAMBDA c : WrapWithoutFirst((c :> Closure(interceptors[i], handler)) @@ cl,
                                         interceptors, i - 1, c))

RECURSIVE Wrap(_, _, _, _)
\* the loop of _register, for (i = interceptors.length - 1; i >= 0; i--), from the
\* i-th interceptor down: wrappedHandler = interceptors[i](wrappedHandler)
Wrap(cl, interceptors, i, handler) ==
    IF i = 0 THEN [handler |-> handler, closures |-> cl]
    ELSE Let(NextClosure(cl),
             LAMBDA c : Wrap((c :> Closure(interceptors[i], handler)) @@ cl,
                             interceptors, i - 1, c))

\* router.group(prefix)
CreateGroup(prefix, bound) ==
    /\ Quiet /\ nops < bound
    /\ groups' = Append(groups, NewGroup(prefix))
    /\ lastOp' = [NoOp EXCEPT !.op = "group", !.prefix = prefix,
                              !.group = Len(groups) + 1]
    /\ nops' = nops + 1
    /\ UNCHANGED <<routers, req, closures, suspended>>

\* group.use(interceptor) on the g-th group
UseInterceptor(g, interceptor, bound) ==
    /\ Quiet /\ nops < bound
    /\ g \in 1..Len(groups)
    /\ groups' = [groups EXCEPT ![g] = GroupUse(@, interceptor)]
    /\ lastOp' = [NoOp EXCEPT !.op = "use", !.prefix = groups[g].prefix, !.group = g]
    /\ nops' = nops + 1
    /\ UNCHANGED <<routers, req, closures, suspended>>

\* group.GET(path, handler) ...: _register wraps the next unused handler and hands the
\* result to the router's registration call under the full path
GroupRegister(g, method, path, sub, bound) ==
    /\ Quiet /\ nops < bound
    /\ g \in 1..Len(groups)
    /\ LET fullPath == groups[g].prefix \o path
           w        == Wrap(closures, groups[g].interceptors,
                            Len(groups[g].interceptors), nops + 1)
           r        == abettor(routers["A"], method, fullPath, w.handler, sub)
       IN  /\ closures' = w.closures
           /\ routers' = [routers EXCEPT !["A"] = r.router]
           /\ lastOp' = [op |-> "_register", router |-> "A", method |-> method,
                         route |-> fullPath, handler |-> nops + 1, sub |-> sub,
                         prefix |-> groups[g].prefix, group |-> g, err |-> r.err]
    /\ nops' = nops + 1
    /\ UNCHANGED <<req, groups, suspended>>

\* the wrapper being awaited runs up to its call of the handler it closes over
EnterInterceptor ==
    /\ req.running \in DOMAIN closures
    /\ req' = [req EXCEPT !.running = closures[req.running].inner,
                          !.log = Append(@, [ev |-> "enter", stage |-> req.pc,
                                             h |-> req.running])]
    /\ UNCHANGED <<routers, lastOp, nops, groups, closures, suspended>>

---------------------------------------------------------------------------
(* Specification of groups: groups are created, given interceptors and routes, and *)
(* requests run step by step                                                       *)

\* calls on the router and its groups per behaviour in the group specification
MaxGroupOps == 4

GroupPrefixes == {"/api"}
GroupPaths == {"/data", "/info"}
GroupRequests == {"/api/data", "/api/info"}

NextGroup ==
    \/ \E prefix \in GroupPrefixes : CreateGroup(prefix, MaxGroupOps)
    \/ \E g \in 1..Len(groups), x \in Interceptors : UseInterceptor(g, x, MaxGroupOps)
    \/ \E g \in 1..Len(groups), p \in GroupPaths :
          GroupRegister(g, "GET", p, DEFAULT, MaxGroupOps)
    \/ \E p \in GroupRequests : StartRequest("GET", p, DEFAULT)
    \/ MatchRoute
    \/ InvokeHandler
    \/ EnterInterceptor
    \/ \E o \in Outcomes : Complete(o)
    \/ Send
    \/ GenericFailure
    \/ Release

SpecGroup == Init /\ [][NextGroup]_vars

---------------------------------------------------------------------------
(* Properties of RouteGroup *)

RECURSIVE ChainOf(_, _)
\* the interceptors wrapped around a handler, the outermost first
ChainOf(cl, h) ==
    IF h \in DOMAIN cl THEN <<cl[h].interceptor>> \o ChainOf(cl, cl[h].inner) ELSE <<>>

RECURSIVE BaseOf(_, _)
\* the handler at the core of a wrapped handler
BaseOf(cl, h) == IF h \in DOMAIN cl THEN BaseOf(cl, cl[h].inner) ELSE h

\* the interceptors whose wrappers the request has entered, in order of entry
Entered ==
    LET enters == SelectSeq(req.log, LAMBDA e : e.ev = "enter")
    IN  [i \in 1..Len(enters) |-> closures[enters[i].h].interceptor]

\* the last call was a successful registration through a group
GroupRegistered == lastOp.op = "_register" /\ lastOp.err = ""

\* the handler the table holds for the route of the last registration
LastRegisteredHandler == CacheGet(TableA.cache[lastOp.method], lastOp.route)

---------------------------------------------------------------------------
(* Host resolution (preprocessor) and subdomain tables *)

\* one segment of a dotted quad as net.isIP reads it: 0..255 without leading zero
V4Seg(s) ==
    /\ Len(s) \in 1..3
    /\ \A i \in 1..Len(s) : IsDigit(Char(s, i))
    /\ Len(s) > 1 => Char(s, 1) # "0"
    /\ DigitsValue(s, 1, Len(s), 0) <= 255

\* net.isIP(host) as a truth value, for a host without ":" (the port split removed
\* every colon, which leaves no IPv6 literal): four segments of 0..255
isIP(host) ==
    LET parts == Split(host, ".")
    IN  Len(parts) = 4 /\ \A i \in 1..4 : V4Seg(parts[i])

\* preprocessor without the test for a literal IP address
preprocessorNoIPCheck(host) ==
    IF host = "" THEN DEFAULT
    ELSE LET noScheme == IF StartsWith(host, "http://")
                         THEN ReplaceFirst(host, "http://", "")
                         ELSE IF StartsWith(host, "https://")
                         THEN ReplaceFirst(host, "https://", "")
                         ELSE host
             parts    == Split(Split(noScheme, ":")[1], ".")
         IN  IF Len(parts) > 2 THEN parts[1] ELSE DEFAULT

\* preprocessor(req)[0] for a request whose host header is host ("" for none)
preprocessor(host) ==
    IF host = "" THEN DEFAULT
    ELSE LET noScheme == IF StartsWith(host, "http://")
                         THEN ReplaceFirst(host, "http://", "")
                         ELSE IF StartsWith(host, "https://")
                         THEN ReplaceFirst(host, "https://", "")
                         ELSE host
             noPort   == Split(noScheme, ":")[1]
             parts    == Split(noPort, ".")
         IN  IF isIP(noPort) THEN DEFAULT
             ELSE IF Len(parts) > 2 THEN parts[1] ELSE DEFAULT

\* Router.handle from its first line: the key of the host header is resolved, the
\* request is bound to its table and the before-middleware loop starts
ReceiveRequest(host, method, path) ==
    /\ Quiet
    /\ LET key == preprocessor(host)
       IN  req' = [IdleReq EXCEPT !.pc = "befores", !.host = host, !.key = key,
                                  !.engine = ResolveEngine(routers["A"], key),
                                  !.method = method, !.path = path, !.k = 1]
    /\ UNCHANGED <<routers, lastOp, nops, groups, closures, suspended>>

\* router.subdomain(name)
AddSubdomain(rid, name, bound) ==
    /\ Quiet /\ nops < bound
    /\ routers' = [routers EXCEPT ![rid] = subdomain(@, name)]
    /\ lastOp' = [NoOp EXCEPT !.op = "subdomain", !.router = rid, !.sub = name]
    /\ nops' = nops + 1
    /\ UNCHANGED <<req, groups, closures, suspended>>

---------------------------------------------------------------------------
(* Specification of host resolution: requests with any of the host headers arrive *)
(* at a router without routes                                                     *)

HostSchemes == {"", "http://", "https://"}
HostNames ==
    {"localhost", "example.com", "api.example.com", "www.example.com",
     "shop.example.co.uk", "a.b.c.d", "127.0.0.1", "192.168.1.10", "10.0.0.256",
     "1.2.3", "API.example.com", "0.0.0.0"}
HostPorts == {"", ":3000", ":80"}

\* the host headers of the requests: no header, or scheme, name and port
HostHeaders ==
    {""} \cup {sc \o name \o port : sc \in HostSchemes, name \in HostNames,
                                   port \in HostPorts}

NextHost ==
    \/ \E host \in HostHeaders : ReceiveRequest(host, "GET", "/")
    \/ MatchRoute
    \/ Send
    \/ Release

SpecHost == Init /\ [][NextHost]_vars

---------------------------------------------------------------------------
(* Properties of host resolution *)

\* the four-part names of HostNames that are literal IP addresses
LiteralIPs == {"127.0.0.1", "192.168.1.10", "0.0.0.0"}

\* the key each name of HostNames stands for: the first label of a name with more
\* than two labels that is no literal IP address, the default key otherwise
KeyOfName ==
    [name \in HostNames |->
        CASE name = "api.example.com"    -> "api"
          [] name = "www.example.com"    -> "www"
          [] name = "shop.example.co.uk" -> "shop"
          [] name = "a.b.c.d"            -> "a"
          [] name = "10.0.0.256"         -> "10"
          [] name = "1.2.3"              -> "1"
          [] name = "API.example.com"    -> "API"
          [] OTHER                       -> "www"]

\* C18: whatever scheme prefix and port a host header carries, its key is the default
\* key when the name is a literal IP address or has at most two dot-separated labels,
\* and the first label when it has more than two; a request without host header gets
\* the default key.
C18_HostResolution ==
    req.pc # "idle" =>
        /\ req.host = "" => req.key = "www"
        /\ \A sc \in HostSchemes, name \in HostNames, port \in HostPorts :
              req.host = sc \o name \o port =>
                 LET labels == Split(name, ".")
                 IN  /\ req.key = KeyOfName[name]
                     /\ name \in LiteralIPs => req.key = "www"
                     /\ Len(labels) <= 2 => req.key = "www"
                     /\ (Len(labels) > 2 /\ name \notin LiteralIPs)
                           => req.key = labels[1]

\* the host https://shop.example.co.uk:3000 was resolved to the key shop
C18_Witness ==
    /\ req.pc = "done"
    /\ req.host = "https://shop.example.co.uk:3000"
    /\ req.key = "shop"

---------------------------------------------------------------------------
(* Specification of subdomain tables: subdomains are registered, routes and        *)
(* middleware are registered against subdomain keys, B is mounted into A, and      *)
(* requests with a host header run to their response                               *)

\* calls on the two routers per behaviour in the subdomain specification
MaxSubOps == 3

SubdomainNames == {"api", "*"}
\* the subdomain keys registration calls name; shop is never registered
SubdomainKeys == {"www", "api", "*", "shop"}
SubdomainHosts == {"example.com", "api.example.com", "shop.example.com:8080"}

NextSubdomain ==
    \/ \E name \in SubdomainNames : AddSubdomain("A", name, MaxSubOps)
    \/ AddSubdomain("B", "api", MaxSubOps)
    \/ \E sub \in SubdomainKeys : Register("A", "GET", "/x", sub, MaxSubOps)
    \/ Register("A", "GET", "x", "shop", MaxSubOps)
    \/ \E sub \in {"www", "api"} : Register("B", "GET", "/x", sub, MaxSubOps)
    \/ \E sub \in {"api", "shop"} : RegisterBefore("A", "/*", sub, MaxSubOps)
    \/ \E sub \in {"api", "shop"} : RegisterAfter("A", "/*", sub, MaxSubOps)
    \/ MountNext(TRUE, "", MaxSubOps)
    \/ \E host \in SubdomainHosts : ReceiveRequest(host, "GET", "/x")
    \/ InvokeBefore
    \/ MatchRoute
    \/ InvokeHandler
    \/ InvokeAfter
    \/ Complete("return")
    \/ Send
    \/ Release

SpecSubdomain == Init /\ [][NextSubdomain]_vars

---------------------------------------------------------------------------
(* Properties of subdomain tables *)

\* the subdomain keys a router has a table for
SubdomainsOf(router) ==
    {router.subdomains[i].name : i \in 1..Len(router.subdomains)}

\* the handlers of a middleware index
IndexHandlers(index) ==
    UNION {{index[i].handlers[j] : j \in 1..Len(index[i].handlers)} :
              i \in 1..Len(index)}

\* C13: every router has its default table at all times; a request whose host has key
\* k runs on the table registered for k if there is one, else on the wildcard table if
\* there is one, else on the default table: the table exists, and every middleware
\* and handler invoked for the request is one registered on that table.
C13_TableResolution ==
    /\ \A r \in RouterIds : "www" \in SubdomainsOf(routers[r])
    /\ req.pc # "idle" =>
          LET names == SubdomainsOf(routers["A"])
              tbl   == Engine(routers["A"], req.engine)
          IN  /\ req.engine = (IF req.key \in names THEN req.key
                               ELSE IF "*" \in names THEN "*" ELSE "www")
              /\ req.engine \in names
              /\ req.handler # 0 => req.handler \in HandlersOf(tbl)
              /\ \A i \in 1..Len(req.log) :
                    /\ req.log[i].stage \in {"before", "befores"}
                          => req.log[i].h \in IndexHandlers(tbl.befores)
                    /\ req.log[i].stage \in {"after", "afters"}
                          => req.log[i].h \in IndexHandlers(tbl.afters)
                    /\ req.log[i].stage = "handler" => req.log[i].h = req.handler
              /\ (req.pc \in {"handler", "afters", "done"}
                    /\ "/x" \in Registered(tbl, "GET"))
                    => req.handler = CacheGet(tbl.cache["GET"], "/x")

\* a request for the unregistered key shop ran the route of the wildcard table, while
\* the default table holds a route for the same path
C13_Witness ==
    /\ req.pc = "done" /\ req.key = "shop" /\ req.engine = "*"
    /\ "shop" \notin SubdomainsOf(routers["A"])
    /\ "*" \in SubdomainsOf(routers["A"])
    /\ "/x" \in Registered(Engine(routers["A"], "www"), "GET")
    /\ "/x" \in Registered(Engine(routers["A"], "*"), "GET")
    /\ req.handler = CacheGet(Engine(routers["A"], "*").cache["GET"], "/x")
    /\ req.log # <<>>

\* a registration call of a route, a before-middleware or an after-middleware
RegistrationStep ==
    nops' = nops + 1 /\ lastOp'.op \in {"abettor", "BEFORE", "AFTER"}

\* C15 as stated: a registration call against a subdomain key without table throws
\* SubdomainError and changes nothing.
C15_UnregisteredSubdomainError ==
    [][(RegistrationStep
          /\ lastOp'.sub \notin SubdomainsOf(routers[lastOp'.router]))
         => (lastOp'.err = "SubdomainError" /\ routers' = routers)]_vars

\* C15: a registration call against a subdomain key without table throws and changes
\* no table and creates none; the error is SubdomainError for a before-middleware, an
\* after-middleware and a route whose pattern starts with "/", and UrlError for a
\* route whose pattern does not.
C15_UnregisteredSubdomainRejected ==
    [][(RegistrationStep
          /\ lastOp'.sub \notin SubdomainsOf(routers[lastOp'.router]))
         => /\ routers' = routers
            /\ lastOp'.err =
                  (IF lastOp'.op = "abettor" /\ ~StartsWith(lastOp'.route, "/")
                   THEN "UrlError" ELSE "SubdomainError")]_vars

\* a before-middleware was refused for the key shop on a router that has the
\* subdomain api besides the default one
C15_Witness ==
    /\ lastOp.op = "BEFORE" /\ lastOp.sub = "shop" /\ lastOp.err = "SubdomainError"
    /\ SubdomainsOf(routers["A"]) = {"www", "api"}

---------------------------------------------------------------------------
(* Router.use, Router.ERROR and the error handler branch of Router.handle *)

\* Router.use without the wildcard it appends: the path is registered as it is
useExactPath(router, path, handler) == BEFORE(router, path, handler, DEFAULT)

\* Router.use(path, handler) for a string path and a function handler
use(router, path, handler) ==
    LET scoped == IF IndexOf(path, "*") = 0
                  THEN (IF EndsWith(path, "/") THEN path \o "*" ELSE path \o "/*")
                  ELSE path
    IN  BEFORE(router, scoped, handler, DEFAULT)

\* Router.ERROR(handler)
ERROR(router, handler) == [router EXCEPT !.errorHandler = handler]

\* router.use(path, handler) with the next unused handler
Use(rid, path, bound) ==
    /\ Quiet /\ nops < bound
    /\ LET r == use(routers[rid], path, nops + 1)
       IN  /\ routers' = [routers EXCEPT ![rid] = r.router]
           /\ lastOp' = [op |-> "Router.use", router |-> rid, method |-> "",
                         route |-> path, handler |-> nops + 1, sub |-> DEFAULT,
                         prefix |-> "", group |-> 0, err |-> r.err]
    /\ nops' = nops + 1
    /\ UNCHANGED <<req, groups, closures, suspended>>

\* router.ERROR(handler) with the next unused handler
SetErrorHandler(rid, bound) ==
    /\ Quiet /\ nops < bound
    /\ routers' = [routers EXCEPT ![rid] = ERROR(@, nops + 1)]
    /\ lastOp' = [NoOp EXCEPT !.op = "ERROR", !.router = rid, !.handler = nops + 1]
    /\ nops' = nops + 1
    /\ UNCHANGED <<req, groups, closures, suspended>>

\* Router.handle, lines 93-99: an error handler is set, so it is called with the
\* error and a new Response (status 404, body "Not found", not aborted) and awaited
InvokeErrorHandler ==
    /\ req.pc = "error"
    /\ routers["A"].errorHandler # 0
    /\ req' = [req EXCEPT !.pc = "hook",
                          !.status = STATUS_NOT_FOUND,
                          !.body = MESSAGE_NOT_FOUND,
                          !.aborted = FALSE,
                          !.log = Append(@, [ev |-> "call", stage |-> "error",
                                             h |-> routers["A"].errorHandler])]
    /\ UNCHANGED <<routers, lastOp, nops, groups, closures, suspended>>

\* the inner catch of Router.handle with the failure of the error handler let go:
\* nothing is written to the socket
OnHookFailureNoResponse(r) == [r EXCEPT !.pc = "done"]

\* Router.handle, lines 100-106: the error handler threw, so status 500 and the body
\* "Internal Server Error" are written to the socket unless a response was written
OnHookFailure(r) ==
    IF r.sent THEN [r EXCEPT !.pc = "done"]
    ELSE [r EXCEPT !.pc = "done", !.sent = TRUE, !.responses = @ + 1,
                   !.sentStatus = STATUS_INTERNAL_SERVER_ERROR,
                   !.sentBody = "Internal Server Error"]

\* the awaited error handler finishes: it returns (having left its response alone or
\* having assigned res.body), after which line 99 sends its response, or it throws
\* (res.abort throws as well)
CompleteHook(outcome) ==
    /\ req.pc = "hook"
    /\ LET h    == routers["A"].errorHandler
           done == [req EXCEPT !.log = Append(@, [ev |-> outcome, stage |-> "hook",
                                                  h |-> h])]
       IN  req' = CASE outcome = "return" -> [done EXCEPT !.pc = "send"]
                    [] outcome = "write"  ->
                         [SetBody(done, BodyPayload(h)) EXCEPT !.pc = "send"]
                    [] outcome = "abort"  -> OnHookFailure(Abort(done, AbortPayload(h)))
                    [] outcome = "throw"  -> OnHookFailure(done)
    /\ UNCHANGED <<routers, lastOp, nops, groups, closures, suspended>>

---------------------------------------------------------------------------
(* Specification of Router.use and the error handler: routes, path-scoped          *)
(* middleware and an error handler are registered, then requests run step by step  *)

\* registration calls per behaviour in this specification
MaxHookOps == 3

HookRoutes == {"/test", "/special/test"}
UsePaths == {"/*", "/special", "/special/"}
HookRequests == {"/test", "/special/test", "/special", "/specialx", "/"}

NextHooks ==
    \/ \E p \in HookRoutes : Register("A", "GET", p, DEFAULT, MaxHookOps)
    \/ \E p \in UsePaths : Use("A", p, MaxHookOps)
    \/ SetErrorHandler("A", MaxHookOps)
    \/ \E p \in HookRequests : StartRequest("GET", p, DEFAULT)
    \/ InvokeBefore
    \/ MatchRoute
    \/ InvokeHandler
    \/ \E o \in Outcomes : Complete(o)
    \/ Send
    \/ GenericFailure
    \/ InvokeErrorHandler
    \/ \E o \in Outcomes : CompleteHook(o)
    \/ Release

SpecHooks == Init /\ [][NextHooks]_vars

---------------------------------------------------------------------------
(* Properties of the error handler and of Router.use *)

\* the error handler of the router was called with the error of this request
HookCalled ==
    \E i \in 1..Len(req.log) :
        req.log[i] = [ev |-> "call", stage |-> "error", h |-> routers["A"].errorHandler]

\* the error handler itself failed
HookFailed ==
    \E i \in 1..Len(req.log) :
        req.log[i].stage = "hook" /\ req.log[i].ev \in {"abort", "throw"}

\* C14: an error thrown by a handler or middleware (not an abort) stays inside
\* Router.handle: with an error handler set it is passed to that handler, without one
\* the generic failure response is sent, and when the error handler itself throws the
\* second failure is caught and a response with status 500 is sent; the request always
\* goes on to its end, and it ends with exactly one response
C14_ThrownErrorIsHandled ==
    req.thrown =>
        /\ req.pc \in {"error", "hook", "send", "done"}
        /\ req.responses <= 1
        /\ req.pc = "error" => ENABLED (GenericFailure \/ InvokeErrorHandler)
        /\ req.pc = "hook" => ENABLED (\E o \in Outcomes : CompleteHook(o))
        /\ req.pc = "send" => ENABLED Send
        /\ (req.pc # "error" /\ routers["A"].errorHandler # 0) => HookCalled
        /\ (req.pc = "done" /\ routers["A"].errorHandler = 0) =>
              /\ ~HookCalled
              /\ req.sentStatus = STATUS_INTERNAL_SERVER_ERROR
              /\ req.sentBody = GenericFailureBody
        /\ HookFailed =>
              /\ req.pc = "done"
              /\ req.sentStatus = STATUS_INTERNAL_SERVER_ERROR
        /\ req.pc = "done" => (req.sent /\ req.responses = 1)

\* a request whose error handler threw has ended with the one response of status 500
C14_Witness ==
    /\ req.thrown
    /\ req.pc = "done"
    /\ HookCalled
    /\ HookFailed
    /\ req.responses = 1
    /\ req.sentStatus = STATUS_INTERNAL_SERVER_ERROR

\* the handler was called as before-middleware and returned before any route handler
\* was called
RanBeforeHandler(h) ==
    \E j, k \in 1..Len(req.log) :
        /\ j < k
        /\ req.log[j] = [ev |-> "call", stage |-> "before", h |-> h]
        /\ req.log[k].h = h
        /\ req.log[k].ev \in {"return", "write"}
        /\ \A i \in 1..Len(req.log) :
              (req.log[i].ev = "call" /\ req.log[i].stage = "handler") => k < i

\* the path given to use, without a trailing "/"
UseBase(path) == IF EndsWith(path, "/") THEN SubSeq(path, 1, Len(path) - 1) ELSE path

\* the request path is the path given to use or lies beneath it
InScope(path) == req.path = UseBase(path) \/ StartsWith(req.path, UseBase(path) \o "/")

\* C16: use(path, h) with a path without "*" makes h before-middleware of the path and
\* of everything beneath it: h runs for a request to a path under path/ and never for
\* a request outside it, and use("/*", h) makes h run for every request path; this
\* holds for the handler of the latest use call and for every handler that the
\* earlier calls left in the index
C16_UseScopesToPrefix ==
    /\ (lastOp.op = "Router.use" /\ lastOp.err = "") =>
          lastOp.handler \in
              BeforesAt(TableA, IF lastOp.route = "/*" THEN "/*"
                                ELSE UseBase(lastOp.route) \o "/*")
    /\ req.pc # "idle" =>
          /\ \A h \in BeforesAt(TableA, "/special/*") :
                IF InScope("/special")
                THEN PastBefores => RanBeforeHandler(h)
                ELSE \A i \in 1..Len(req.log) : req.log[i].h # h
          /\ \A h \in BeforesAt(TableA, "/*") : PastBefores => RanBeforeHandler(h)

\* after use("/special", h), a request to /special/test has finished and h ran
\* before its route handler was called
C16_Witness ==
    /\ lastOp.op = "Router.use"
    /\ lastOp.route = "/special"
    /\ lastOp.err = ""
    /\ req.path = "/special/test"
    /\ req.pc = "done"
    /\ req.handler # 0
    /\ RanBeforeHandler(lastOp.handler)

---------------------------------------------------------------------------
(* Specification of a sequence of mounts: routes are registered in router A and in  *)
(* router B, in its default table and in its "api" table, and B is mounted into A   *)
(* again and again under prefixes, B growing between the mounts                     *)

\* registration and mount calls per behaviour in this specification
MaxSeqOps == 4

SeqPrefixes == {"", "/v1", "/v2"}
SeqRoutes == {<<"GET", "/ping">>, <<"POST", "/ping">>, <<"GET", "/users">>}

NextMountSeq ==
    \/ Register("A", "GET", "/ping", DEFAULT, MaxSeqOps)
    \/ \E in \in SeqRoutes : Register("B", in[1], in[2], DEFAULT, MaxSeqOps)
    \/ AddSubdomain("B", "api", MaxSeqOps)
    \/ Register("B", "GET", "/ping", "api", MaxSeqOps)
    \/ \E isolated \in BOOLEAN, prefix \in SeqPrefixes :
          MountNext(isolated, prefix, MaxSeqOps)

SpecMountSeq == Init /\ [][NextMountSeq]_vars

\* the routes of a table: method, pattern and handler of every entry of its cache
RoutesOf(tbl) ==
    UNION {{<<m, tbl.cache[m][i].route, tbl.cache[m][i].handler>> :
               i \in 1..Len(tbl.cache[m])} : m \in DOMAIN tbl.cache}

\* the routes of the table of a router for a subdomain, none when it has no such table
RoutesIn(router, name) ==
    IF name \in SubdomainsOf(router) THEN RoutesOf(Engine(router, name)) ELSE {}

\* some route of B would, under the prefix, get the method and pattern of a route
\* that A has in the table of the same subdomain
SeqCollides(prefix) ==
    \E name \in SubdomainsOf(routers["B"]) :
        \E b \in RoutesIn(routers["B"], name), a \in RoutesIn(routers["A"], name) :
            b[1] = a[1] /\ FinalRoute(prefix, b[2]) = a[2]

\* C17: mounting merges: a mount whose routes get methods and final patterns that the
\* main router does not have yet succeeds, every route that the main router had before
\* the mount is registered after it with the handler it had, and every route of the
\* mounted router is registered, under its final pattern and with its handler, in the
\* main router's table of the same subdomain; so it is for each mount of a sequence
C17_MountMerges ==
    [][(lastOp'.op = "mount" /\ nops' = nops + 1 /\ ~SeqCollides(lastOp'.prefix))
         => /\ lastOp'.err = ""
            /\ \A name \in SubdomainsOf(routers["A"]) :
                  /\ name \in SubdomainsOf(routers'["A"])
                  /\ RoutesIn(routers["A"], name) \subseteq RoutesIn(routers'["A"], name)
            /\ \A name \in SubdomainsOf(routers["B"]) :
                  \A b \in RoutesIn(routers["B"], name) :
                      <<b[1], FinalRoute(lastOp'.prefix, b[2]), b[3]>>
                          \in RoutesIn(routers'["A"], name)
            /\ \A name \in SubdomainsOf(routers'["A"]) :
                  \A x, y \in RoutesIn(routers'["A"], name) :
                      (x[1] = y[1] /\ x[2] = y[2]) => x[3] = y[3]]_vars

\* B has been mounted under /v1 and then under /v2 into a router that had /ping: the
\* main router holds its own /ping and B's /ping under both prefixes, each with the
\* handler it was registered with
C17_Witness ==
    /\ lastOp.op = "mount"
    /\ lastOp.err = ""
    /\ lastOp.prefix = "/v2"
    /\ \E a, b \in 1..MaxSeqOps :
          /\ a # b
          /\ {<<"GET", "/ping", a>>, <<"GET", "/v1/ping", b>>, <<"GET", "/v2/ping", b>>}
                \subseteq RoutesIn(routers["A"], DEFAULT)
          /\ <<"GET", "/ping", b>> \in RoutesIn(routers["B"], DEFAULT)

---------------------------------------------------------------------------
(* Properties of the order of the stages and of the middleware *)

\* the calls of the request so far, in order
CallsOf(log) == SelectSeq(log, LAMBDA e : e.ev = "call")

\* the handlers called in a stage, in the order of the calls
CalledIn(stage) ==
    LET calls == SelectSeq(req.log, LAMBDA e : e.ev = "call" /\ e.stage = stage)
    IN  [i \in 1..Len(calls) |-> calls[i].h]

\* the handlers of the entries of an index whose pattern matches the path
MatchingSet(index, path) ==
    UNION {{index[i].handlers[j] : j \in 1..Len(index[i].handlers)} :
              i \in {n \in 1..Len(index) : matchesPattern(index[n].route, path)}}

\* the request has ended, it matched a route, and nothing aborted or threw
CleanRun == req.pc = "done" /\ req.handler # 0 /\ ~req.aborted /\ ~req.thrown

\* the elements of a sequence as a set
Range(seq) == {seq[i] : i \in 1..Len(seq)}

\* C19: the stages of a request run one after the other without overlap: every call is
\* awaited to its completion before the next call is made; on a request that matched a
\* route and in which nothing aborted or threw, the calls are those of every matching
\* before-middleware, then the one call of the route handler, then those of every
\* matching after-middleware; and no after-middleware is called for a request that
\* matched no route
C19_StagesInSequence ==
    /\ \A i \in 1..Len(req.log) :
          IF i % 2 = 1
          THEN /\ req.log[i].ev = "call"
               /\ i = Len(req.log) => req.running = req.log[i].h
          ELSE /\ req.log[i].ev \in Outcomes
               /\ req.log[i].h = req.log[i - 1].h
               /\ i = Len(req.log) => req.running = 0
    /\ \A i, j \in 1..Len(req.log) :
          (i < j /\ req.log[i].ev = "call" /\ req.log[j].ev = "call") =>
              /\ req.log[i].stage = "handler" => req.log[j].stage = "after"
              /\ req.log[i].stage = "after" => req.log[j].stage = "after"
    /\ CleanRun =>
          /\ Range(CalledIn("before")) = MatchingSet(ReqTable.befores, req.path)
          /\ CalledIn("handler") = <<req.handler>>
          /\ Range(CalledIn("after")) = MatchingSet(ReqTable.afters, req.path)
          /\ Len(CallsOf(req.log)) =
                Cardinality(MatchingSet(ReqTable.befores, req.path)) + 1
                  + Cardinality(MatchingSet(ReqTable.afters, req.path))
    /\ (req.pc \in {"send", "done"} /\ req.handler = 0) =>
          /\ CalledIn("after") = <<>>
          /\ CalledIn("handler") = <<>>

\* a request that matched a route has ended without abort or error after two
\* before-middleware, the route handler and an after-middleware
C19_Witness ==
    /\ CleanRun
    /\ Len(CalledIn("before")) = 2
    /\ Len(CalledIn("handler")) = 1
    /\ Len(CalledIn("after")) = 1
    /\ Len(req.log) = 8

\* the entry of the index that holds the handler
EntryOf(index, h) ==
    CHOOSE i \in 1..Len(index) : h \in Range(index[i].handlers)

\* the handlers were called in the order of the index: pattern by pattern in the order
\* of first registration, and in the order of adding within a pattern (handlers are
\* numbered in the order of their registration)
InIndexOrder(index, called) ==
    \A x, y \in 1..Len(called) :
        x < y =>
            LET ex == EntryOf(index, called[x])
                ey == EntryOf(index, called[y])
            IN  \/ index[ex].handlers[1] < index[ey].handlers[1]
                \/ ex = ey /\ called[x] < called[y]

\* the handlers registered for a pattern in an index
HandlersAt(index, pattern) ==
    UNION {Range(index[i].handlers) :
              i \in {n \in 1..Len(index) : index[n].route = pattern}}

\* the patterns of an index
PatternsOf(index) == {index[i].route : i \in 1..Len(index)}

\* the calls of a stage are those of the index: every handler of every matching
\* pattern once, in the order of the index
CalledByIndex(index, stage) ==
    /\ Range(CalledIn(stage)) = MatchingSet(index, req.path)
    /\ Len(CalledIn(stage)) = Cardinality(MatchingSet(index, req.path))
    /\ InIndexOrder(index, CalledIn(stage))

\* adding a handler to an index adds it to the handlers of its pattern and leaves
\* every handler of every pattern in place
Accumulates(index, after, pattern, h) ==
    /\ HandlersAt(after, pattern) = HandlersAt(index, pattern) \cup {h}
    /\ h \notin HandlersAt(index, pattern)
    /\ PatternsOf(after) = PatternsOf(index) \cup {pattern}
    /\ \A q \in PatternsOf(index) \ {pattern} : HandlersAt(after, q) = HandlersAt(index, q)
    /\ \A q \in PatternsOf(index) :
          after[CHOOSE i \in 1..Len(after) : after[i].route = q].handlers[1] =
              index[CHOOSE i \in 1..Len(index) : index[i].route = q].handlers[1]

\* C20: within the before index and within the after index, the handlers called for a
\* request are exactly those of every pattern that matches the path, pattern by
\* pattern in the order in which the patterns were first registered and, within a
\* pattern, in the order in which the handlers were added; every add call on a pattern
\* adds its handler to those of the pattern, none is dropped and none is left out
C20_MiddlewareInRegistrationOrder ==
    /\ [](PastBefores => CalledByIndex(ReqTable.befores, "before"))
    /\ [](CleanRun => CalledByIndex(ReqTable.afters, "after"))
    /\ [][(lastOp'.op = "BEFORE" /\ nops' = nops + 1 /\ lastOp'.err = "")
            => Accumulates(TableA.befores, Engine(routers'["A"], DEFAULT).befores,
                           lastOp'.route, lastOp'.handler)]_vars
    /\ [][(lastOp'.op = "AFTER" /\ nops' = nops + 1 /\ lastOp'.err = "")
            => Accumulates(TableA.afters, Engine(routers'["A"], DEFAULT).afters,
                           lastOp'.route, lastOp'.handler)]_vars

\* /* was registered first, /api/* second and /* again third: a request to a path
\* under /api/ has called the first, the third and then the second handler
C20_Witness ==
    /\ req.pc = "done" /\ ~req.aborted /\ ~req.thrown
    /\ Len(TableA.befores) = 2
    /\ TableA.befores[1].route = "/*"
    /\ TableA.befores[2].route = "/api/*"
    /\ \E a, b, c \in 1..MaxSetup :
          /\ a < b /\ b < c
          /\ CalledIn("before") = <<a, c, b>>

---------------------------------------------------------------------------
(* Specification of the middleware merge of mount: before- and after-middleware is  *)
(* registered in router A and in router B, and B is mounted into A under prefixes   *)
(* that put B's patterns on patterns of A                                            *)

\* registration and mount calls per behaviour in this specification
MaxMwOps == 4

MwPrefixes == {"", "/api"}
MwPatterns == {"/*", "/api/*"}

NextMountMw ==
    \/ RegisterBefore("A", "/api/*", DEFAULT, MaxMwOps)
    \/ RegisterAfter("A", "/api/*", DEFAULT, MaxMwOps)
    \/ \E p \in MwPatterns : RegisterBefore("B", p, DEFAULT, MaxMwOps)
    \/ RegisterAfter("B", "/*", DEFAULT, MaxMwOps)
    \/ \E isolated \in BOOLEAN, prefix \in MwPrefixes :
          MountNext(isolated, prefix, MaxMwOps)

SpecMountMw == Init /\ [][NextMountMw]_vars

\* the handler list of a pattern in an index, empty when the pattern is not in it
ListAt(index, pattern) ==
    IF \E i \in 1..Len(index) : index[i].route = pattern
    THEN index[CHOOSE i \in 1..Len(index) : index[i].route = pattern].handlers
    ELSE <<>>

RECURSIVE SourceLists(_, _, _, _)
\* the handler lists of the source entries, from the i-th on, whose final pattern
\* under the prefix is the given one, one after the other in source order
SourceLists(sourceIndex, i, prefix, pattern) ==
    IF i > Len(sourceIndex) THEN <<>>
    ELSE (IF FinalRoute(prefix, sourceIndex[i].route) = pattern
          THEN sourceIndex[i].handlers ELSE <<>>)
         \o SourceLists(sourceIndex, i + 1, prefix, pattern)

\* the index after the mount holds, for every pattern, the list it had followed by the
\* source's lists for that final pattern, and it holds every final pattern
MergedInOrder(index, after, sourceIndex, prefix) ==
    /\ \A q \in PatternsOf(index) \cup PatternsOf(after) :
          ListAt(after, q) = ListAt(index, q) \o SourceLists(sourceIndex, 1, prefix, q)
    /\ \A i \in 1..Len(sourceIndex) :
          FinalRoute(prefix, sourceIndex[i].route) \in PatternsOf(after)

\* C21: a mount that copies before- or after-middleware onto a final pattern that has
\* handlers in the destination raises no error, and the destination list is afterwards
\* the list it had followed by the source's handlers in source order; the mount leaves
\* the source router as it was, and so does every later registration on the
\* destination (the lists are copies)
C21_MountAppendsMiddleware ==
    [][/\ (lastOp'.op = "mount" /\ nops' = nops + 1) =>
             /\ lastOp'.err = ""
             /\ MergedInOrder(TableA.befores, Engine(routers'["A"], DEFAULT).befores,
                              TableB.befores, lastOp'.prefix)
             /\ MergedInOrder(TableA.afters, Engine(routers'["A"], DEFAULT).afters,
                              TableB.afters, lastOp'.prefix)
       /\ (nops' = nops + 1 /\ lastOp'.router = "A") => routers'["B"] = routers["B"]]_vars

\* B, with two handlers on /*, was mounted under /api into a router with a handler on
\* /api/*: the list of /api/* is A's handler followed by B's two
C21_Witness ==
    /\ lastOp.op = "mount"
    /\ lastOp.prefix = "/api"
    /\ lastOp.err = ""
    /\ Len(ListAt(TableB.befores, "/*")) = 2
    /\ Len(ListAt(TableA.befores, "/api/*")) = 3
    /\ SubSeq(ListAt(TableA.befores, "/api/*"), 2, 3) = ListAt(TableB.befores, "/*")

---------------------------------------------------------------------------
(* Specification of the edits of a table: routes are registered, removed and given  *)
(* new handlers, in any order                                                        *)

\* registration, removal and update calls per behaviour in this specification
MaxEditOps == 3

EditRoutes == {"/", "/a", "/a/", "/a/:x", "/a/:y", "/a/b", "/a/*", "/a/*/b"}
EditPaths == {"/", "/a", "/a/b", "/a/c", "/a/b/c", "/a/c/b", "/b"}

NextEdit ==
    \/ \E p \in EditRoutes : Register("A", "GET", p, DEFAULT, MaxEditOps)
    \/ \E p \in EditRoutes : Remove("GET", p, MaxEditOps)
    \/ \E p \in EditRoutes : UpdateHandler("GET", p, MaxEditOps)

SpecEdit == Init /\ [][NextEdit]_vars

---------------------------------------------------------------------------
(* Properties of remove, updateHandler and of the agreement of lookup and trie *)

\* what match returns for a GET of the path: the route and the handler
MatchOf(tbl, path) ==
    LET m == RoutesMatch(tbl, "GET", path, <<>>)
    IN  <<m.route, m.handler>>

\* the slot of a node that holds no route
NoSlot == [handler |-> 0, route |-> NullRoute]

RECURSIVE SlotWalk(_, _, _, _)
\* the slot that the registration descent of Routes.add reaches from segment i on: the
\* wildcard of the node at which "*" is met, or the node of the last segment
SlotWalk(trie, np, segments, i) ==
    IF segments[i] = "*"
    THEN (IF trie[np].wildcard # <<>> THEN trie[np].wildcard[1] ELSE NoSlot)
    ELSE LET child == Append(np, IF isParam(segments[i]).name # "" THEN ParamKey
                                 ELSE segments[i])
         IN  IF child \notin DOMAIN trie THEN NoSlot
             ELSE IF i = Len(segments)
             THEN [handler |-> trie[child].handler, route |-> trie[child].route]
             ELSE SlotWalk(trie, child, segments, i + 1)

\* the trie slot of a pattern in the GET trie of a table
SlotOf(tbl, pattern) ==
    IF Segments(pattern) = <<>>
    THEN [handler |-> tbl.routes["GET"][<<>>].handler,
          route |-> tbl.routes["GET"][<<>>].route]
    ELSE SlotWalk(tbl.routes["GET"], <<>>, Segments(pattern), 1)

\* the table of router A after the step
TableANext == Engine(routers'["A"], DEFAULT)

\* the lookup entries of a method, as a set
EntriesOf(tbl, method) == Range(tbl.cache[method])

\* C22: remove(method, pattern) deletes the lookup entry and nothing else: match
\* returns for every path the route and handler it returned before, the entry of the
\* pattern is gone, and no entry of another pattern or method changes
C22_RemoveDeletesOnlyLookupEntry ==
    [][(lastOp'.op = "remove" /\ nops' = nops + 1) =>
          /\ \A path \in EditPaths : MatchOf(TableANext, path) = MatchOf(TableA, path)
          /\ TableANext.routes = TableA.routes
          /\ lastOp'.route \notin Registered(TableANext, lastOp'.method)
          /\ EntriesOf(TableANext, lastOp'.method) =
                {e \in EntriesOf(TableA, lastOp'.method) : e.route # lastOp'.route}
          /\ \A m \in MethodSet \ {lastOp'.method} :
                TableANext.cache[m] = TableA.cache[m]]_vars

\* /a/b was registered next to another route and then removed: it is not in the
\* lookup table, and a GET of /a/b is still matched to it
C22_Witness ==
    /\ lastOp.op = "remove"
    /\ lastOp.route = "/a/b"
    /\ "/a/b" \notin Registered(TableA, "GET")
    /\ Registered(TableA, "GET") # {}
    /\ MatchOf(TableA, "/a/b")[1] = "/a/b"
    /\ MatchOf(TableA, "/a/b")[2] # 0

\* C24: updateHandler(method, pattern, h) for a registered pattern returns true and
\* replaces the handler of that route in place: every path that matched the route
\* yields h, the lookup entry of the pattern holds h, the registered patterns are the
\* same, and the lookup entry and the trie slot of every other registered route are
\* as they were
C24_UpdateHandlerInPlace ==
    [][(lastOp'.op = "updateHandler" /\ nops' = nops + 1
          /\ lastOp'.route \in Registered(TableA, "GET")) =>
          /\ updateHandler(TableA, "GET", lastOp'.route, lastOp'.handler).ok
          /\ \A path \in EditPaths :
                MatchOf(TableA, path)[1] = lastOp'.route =>
                    MatchOf(TableANext, path) = <<lastOp'.route, lastOp'.handler>>
          /\ CacheGet(TableANext.cache["GET"], lastOp'.route) = lastOp'.handler
          /\ Registered(TableANext, "GET") = Registered(TableA, "GET")
          /\ \A q \in Registered(TableA, "GET") \ {lastOp'.route} :
                /\ CacheGet(TableANext.cache["GET"], q) = CacheGet(TableA.cache["GET"], q)
                /\ SlotOf(TableANext, q) = SlotOf(TableA, q)]_vars

\* C26: a successful registration leaves the trie slot of every route registered
\* before it as it was: where the lookup table and the trie agreed on a pattern and
\* its handler, they agree after the registration of another pattern
C26_LookupAndTrieAgree ==
    [][(lastOp'.op = "abettor" /\ nops' = nops + 1 /\ lastOp'.err = "") =>
          \A q \in Registered(TableA, "GET") :
              SlotOf(TableA, q) = [handler |-> CacheGet(TableA.cache["GET"], q),
                                   route |-> q]
                => SlotOf(TableANext, q) = SlotOf(TableA, q)]_vars

\* C30: updateHandler(method, pattern, h) for a pattern that is not registered for the
\* method returns false and changes nothing: match returns for every path the route
\* and handler it returned before
C30_UpdateHandlerUnregistered ==
    [][(lastOp'.op = "updateHandler" /\ nops' = nops + 1
          /\ lastOp'.route \notin Registered(TableA, "GET")) =>
          /\ ~updateHandler(TableA, "GET", lastOp'.route, lastOp'.handler).ok
          /\ \A path \in EditPaths : MatchOf(TableANext, path) = MatchOf(TableA, path)
          /\ routers' = routers]_vars

---------------------------------------------------------------------------
(* Nested groups: RouteGroup.group *)

\* RouteGroup.group creating the subgroup without the interceptors of its parent
SubgroupWithoutInherited(group, prefix) == NewGroup(group.prefix \o prefix)

\* RouteGroup.group(prefix): a new group under the joined prefix whose interceptors
\* are a new array holding the parent's interceptors, [...this.interceptors]
Subgroup(group, prefix) ==
    [NewGroup(group.prefix \o prefix) EXCEPT !.interceptors = group.interceptors]

\* groups[g].group(prefix): the subgroup becomes the last group; lastOp.group is the
\* parent
CreateSubgroup(g, prefix, bound) ==
    /\ Quiet /\ nops < bound
    /\ g \in 1..Len(groups)
    /\ groups' = Append(groups, Subgroup(groups[g], prefix))
    /\ lastOp' = [NoOp EXCEPT !.op = "group.group", !.prefix = prefix, !.group = g]
    /\ nops' = nops + 1
    /\ UNCHANGED <<routers, req, closures, suspended>>

\* calls on the router and its groups per behaviour in the specification of nested
\* groups
MaxNestOps == 5

NestInterceptors == {"A", "B"}
NestPrefixes == {"/admin"}
NestPaths == {"/data"}

NextNest ==
    \/ /\ groups = <<>>
       /\ \E prefix \in GroupPrefixes : CreateGroup(prefix, MaxNestOps)
    \/ \E g \in 1..Len(groups), prefix \in NestPrefixes :
          CreateSubgroup(g, prefix, MaxNestOps)
    \/ \E g \in 1..Len(groups), x \in NestInterceptors :
          UseInterceptor(g, x, MaxNestOps)
    \/ \E g \in 1..Len(groups), p \in NestPaths :
          GroupRegister(g, "GET", p, DEFAULT, MaxNestOps)

SpecNest == Init /\ [][NextNest]_vars

\* C23: a subgroup gets a copy of its parent's interceptors as they are when it is
\* created, under the joined prefix, and no other group changes; a use call adds its
\* interceptor to its own group and to no other group, parent or subgroup, and wraps
\* no route that is registered; a route registered through a group is wrapped by that
\* group's interceptors, the inherited ones outside, followed by its own
C23_SubgroupCopiesInterceptors ==
    [][/\ (lastOp'.op = "group.group" /\ nops' = nops + 1) =>
             /\ Len(groups') = Len(groups) + 1
             /\ groups'[Len(groups')].interceptors = groups[lastOp'.group].interceptors
             /\ groups'[Len(groups')].prefix = groups[lastOp'.group].prefix \o lastOp'.prefix
             /\ \A g \in 1..Len(groups) : groups'[g] = groups[g]
       /\ (lastOp'.op = "use" /\ nops' = nops + 1) =>
             /\ Len(groups') = Len(groups)
             /\ Len(groups'[lastOp'.group].interceptors) =
                   Len(groups[lastOp'.group].interceptors) + 1
             /\ SubSeq(groups'[lastOp'.group].interceptors, 1,
                       Len(groups[lastOp'.group].interceptors)) =
                   groups[lastOp'.group].interceptors
             /\ \A g \in 1..Len(groups) : g # lastOp'.group => groups'[g] = groups[g]
             /\ routers' = routers
             /\ closures' = closures
       /\ (lastOp'.op = "_register" /\ nops' = nops + 1 /\ lastOp'.err = "") =>
             LET h == CacheGet(TableANext.cache[lastOp'.method], lastOp'.route)
             IN  /\ ChainOf(closures', h) = groups[lastOp'.group].interceptors
                 /\ BaseOf(closures', h) = lastOp'.handler
                 /\ groups' = groups
                 /\ \A c \in DOMAIN closures : closures'[c] = closures[c]]_vars

\* the parent used A, the subgroup was created, the parent then used B, and a route
\* was registered through the subgroup: it is wrapped by A alone, under the joined
\* prefix, while the parent holds A and B
C23_Witness ==
    /\ lastOp.op = "_register"
    /\ lastOp.err = ""
    /\ lastOp.group = 2
    /\ lastOp.route = "/api/admin/data"
    /\ groups[1].interceptors = <<"A", "B">>
    /\ groups[2].interceptors = <<"A">>
    /\ ChainOf(closures, CacheGet(TableA.cache["GET"], "/api/admin/data")) = <<"A">>

---------------------------------------------------------------------------
(* Specification of the patterns that registration lets into the lookup tables:     *)
(* routes are registered on the routers and through groups, with and without a      *)
(* leading "/", and router B is mounted into router A under any prefix string       *)

\* registration and mount calls per behaviour in this specification
MaxPatOps == 3

PatRoutes == {"/ping", "ping"}
PatGroupPrefixes == {"/api", "api"}
PatGroupPaths == {"/data", "data"}
PatPrefixes == {"", "/", "/v1", "v1"}

NextPatterns ==
    \/ \E rid \in RouterIds, p \in PatRoutes : Register(rid, "GET", p, DEFAULT, MaxPatOps)
    \/ \E prefix \in PatGroupPrefixes : CreateGroup(prefix, MaxPatOps)
    \/ \E g \in 1..Len(groups), p \in PatGroupPaths :
          GroupRegister(g, "GET", p, DEFAULT, MaxPatOps)
    \/ \E isolated \in BOOLEAN, prefix \in PatPrefixes :
          MountNext(isolated, prefix, MaxPatOps)

SpecPatterns == Init /\ [][NextPatterns]_vars

\* the patterns in the route lookup of every subdomain table of a router
LookupPatterns(router) ==
    UNION {{r[2] : r \in RoutesIn(router, name)} : name \in SubdomainsOf(router)}

\* C25: whatever registration calls were made, on the routers, through groups and by
\* mounting under any prefix string, every pattern in the route lookup of every
\* subdomain table begins with "/"
C25_LookupPatternsStartWithSlash ==
    \A rid \in RouterIds : \A pattern \in LookupPatterns(routers[rid]) :
        StartsWith(pattern, "/")

---------------------------------------------------------------------------
(* A mount that fails *)

\* C27: a mount call that raises the duplicate-route error leaves the destination
\* router as it was before the call: no route, middleware handler, subdomain table,
\* startup or shutdown hook, configuration entry or store entry of the destination is
\* added or changed
C27_FailedMountChangesNothing ==
    [][(lastOp'.op = "mount" /\ nops' = nops + 1 /\ lastOp'.err = "UrlDuplicateError")
          => routers'["A"] = routers["A"]]_vars

---------------------------------------------------------------------------
(* Typed parameters next to other routes *)

\* C28: whenever the matched route declares :name:int at a position and the path
\* segment there parses as an integer, params[name] is that number, whatever other
\* routes are registered for the method and in whatever order
C28_IntParameterAmongOtherRoutes ==
    (req.pc = "matched" /\ req.handler # 0 /\ req.route # NullRoute) =>
        LET rs == Segments(req.route)
            ps == Segments(req.path)
        IN  \A i \in 1..Len(rs) :
                (/\ i <= Len(ps)
                 /\ isParam(rs[i]).name # ""
                 /\ ToLower(isParam(rs[i]).type) \in {"int", "integer"}
                 /\ ParseInt(ps[i]) # NaN)
                => /\ isParam(rs[i]).name \in DOMAIN req.params
                   /\ req.params[isParam(rs[i]).name] = ParseInt(ps[i])

---------------------------------------------------------------------------
(* Specification of two requests in flight: a route and a before-middleware are     *)
(* registered, then two requests are dispatched on the same table, interleaved at   *)
(* the awaits                                                                        *)

\* registration calls per behaviour in this specification
MaxConcOps == 2

ConcRequests == {"/users/1", "/users/2"}

NextConcurrent ==
    \/ /\ suspended.pc = "idle"
       /\ Register("A", "GET", "/users/:id", DEFAULT, MaxConcOps)
    \/ /\ suspended.pc = "idle"
       /\ RegisterBefore("A", "/*", DEFAULT, MaxConcOps)
    \/ \E p \in ConcRequests : StartRequest("GET", p, DEFAULT)
    \/ InvokeBefore
    \/ MatchRoute
    \/ InvokeHandler
    \/ \E o \in Outcomes : Complete(o)
    \/ Send
    \/ GenericFailure
    \/ Release
    \/ Yield

SpecConcurrent == Init /\ [][NextConcurrent]_vars

\* the values that the segments of the request's own path can be bound to
OwnValues(r) ==
    {coerceType(seg, hint) : seg \in Range(Segments(r.path)), hint \in {"", "int"}}

\* every parameter of the request holds a value of its own path
OwnParams(r) == \A name \in DOMAIN r.params : r.params[name] \in OwnValues(r)

\* C29: with two requests in flight on one table, interleaved at the awaits, the
\* parameters that each request carries, and so those its handler sees, hold values of
\* its own path only; a step of one request leaves the other request as it is; and no
\* step of a dispatch changes a trie, a lookup table or a middleware index
C29_RequestsAreIsolated ==
    /\ [](OwnParams(req) /\ OwnParams(suspended))
    /\ [][nops' = nops =>
             /\ routers' = routers
             /\ \/ suspended' = suspended
                \/ suspended' = req /\ req' = suspended]_vars

\* the handlers of two requests are awaited at the same time, each request with the
\* parameter of its own path
C29_Witness ==
    /\ req.pc = "handler" /\ req.running # 0
    /\ suspended.pc = "handler" /\ suspended.running # 0
    /\ req.path = "/users/1" /\ suspended.path = "/users/2"
    /\ req.params = ("id" :> StrVal("1"))
    /\ suspended.params = ("id" :> StrVal("2"))

=============================================================================
